---------------------------- MODULE Spec2Model ----------------------------
(***************************************************************************)
(* Rule-based invoice text extraction (src/src/extraction.py) and the      *)
(* pipeline that calls it (src/src/pipeline.py).                           *)
(*                                                                         *)
(* A text is a sequence of one-character strings.  An optional value       *)
(* (Python's None / a value) is a sequence of length at most one:          *)
(* None is << >> and a present value v is << v >>.                         *)
(***************************************************************************)
EXTENDS Integers, Sequences, FiniteSets, TLC

VARIABLES
    text,      \* Optional[str]: the argument of the call (<< >> is None)
    pc,        \* "start" before the call, the called function's name after it
    out,       \* the outcome of the call: [status, exc, val]
    call,      \* the arguments of a pipeline call (image path, method, ...)
    world,     \* what the pipeline finds outside: the image, the ML entities
    files,     \* the JSON files written so far: a set of [path, data]
    printed    \* what the command line or a test script printed

vars == <<text, pc, out, call, world, files, printed>>

---------------------------------------------------------------------------
(* Characters and the str methods the extractors use.                      *)

Digits == {"0", "1", "2", "3", "4", "5", "6", "7", "8", "9"}

UpperSeq == <<"A", "B", "C", "D", "E", "F", "G", "H", "I", "J", "K", "L", "M",
              "N", "O", "P", "Q", "R", "S", "T", "U", "V", "W", "X", "Y", "Z">>

LowerSeq == <<"a", "b", "c", "d", "e", "f", "g", "h", "i", "j", "k", "l", "m",
              "n", "o", "p", "q", "r", "s", "t", "u", "v", "w", "x", "y", "z">>

UpperLetters == {UpperSeq[i] : i \in 1..Len(UpperSeq)}

LowerLetters == {LowerSeq[i] : i \in 1..Len(LowerSeq)}

Letters == UpperLetters \cup LowerLetters

\* \s of the re module and the characters str.strip() removes
Whitespace == {" ", "\t", "\n", "\r", "\f"}

\* \w of the re module
WordChars == Letters \cup Digits \cup {"_"}

\* str.lower() / str.upper() on one character
LowerChar(c) ==
    IF c \in UpperLetters
    THEN LowerSeq[CHOOSE i \in 1..Len(UpperSeq) : UpperSeq[i] = c]
    ELSE c

UpperChar(c) ==
    IF c \in LowerLetters
    THEN UpperSeq[CHOOSE i \in 1..Len(LowerSeq) : LowerSeq[i] = c]
    ELSE c

StrLower(s) == [i \in 1..Len(s) |-> LowerChar(s[i])]

StrUpper(s) == [i \in 1..Len(s) |-> UpperChar(s[i])]

\* s[a:b] with 1-based inclusive start a and exclusive end b
Slice(s, a, b) == [k \in 1..(b - a) |-> s[a + k - 1]]

\* k in s, for strings
IsAt(k, s, i) ==
    /\ i + Len(k) - 1 <= Len(s)
    /\ \A j \in 1..Len(k) : s[i + j - 1] = k[j]

Contains(s, k) == \E i \in 1..(Len(s) - Len(k) + 1) : IsAt(k, s, i)

\* str.strip()
Strip(s) ==
    LET keep == {i \in 1..Len(s) : s[i] \notin Whitespace}
    IN  IF keep = {} THEN << >>
        ELSE LET a == CHOOSE i \in keep : \A j \in keep : i <= j
                 b == CHOOSE i \in keep : \A j \in keep : j <= i
             IN  Slice(s, a, b + 1)

\* the k-th smallest element of a set of integers
Nth(S, k) == CHOOSE x \in S : Cardinality({y \in S : y < x}) = k - 1

\* the pieces of s between the characters of seps, empty pieces kept
SplitOn(s, seps) ==
    LET cuts == {i \in 1..Len(s) : s[i] \in seps}
        from(k) == IF k = 1 THEN 1 ELSE Nth(cuts, k - 1) + 1
        to(k)   == IF k = Cardinality(cuts) + 1 THEN Len(s) + 1 ELSE Nth(cuts, k)
    IN  [k \in 1..(Cardinality(cuts) + 1) |-> Slice(s, from(k), to(k))]

\* str.split('\n')
SplitLines(s) == SplitOn(s, {"\n"})

\* str.replace(old, '') for a one-character old
RemoveChar(s, c) == SelectSeq(s, LAMBDA x : x # c)

\* str.replace(a, b) for one-character a and b
ReplaceChar(s, a, b) == [i \in 1..Len(s) |-> IF s[i] = a THEN b ELSE s[i]]

---------------------------------------------------------------------------
(* Regular expressions: a pattern is a tree, and Ends(r, s, i) is the      *)
(* sequence of positions at which a match of r that starts at position i   *)
(* of s can end, in the order re's backtracking matcher tries them, so     *)
(* that the head is the match re reports.                                  *)

Cls(S) == [t |-> "set", s |-> S]

NotCls(S) == [t |-> "nset", s |-> S]

Lit(c) == Cls({c})

\* a literal word; ci is re.IGNORECASE
Word(w) == [t |-> "str", w |-> w, ci |-> FALSE]

IWord(w) == [t |-> "str", w |-> w, ci |-> TRUE]

Cat(rs) == [t |-> "seq", rs |-> rs]

Alt(rs) == [t |-> "alt", rs |-> rs]

Unbounded == -1

\* greedy [S]{lo,hi} for a character class S; hi = Unbounded for * and +
Run(S, lo, hi) == [t |-> "run", s |-> S, lo |-> lo, hi |-> hi]

\* greedy (?:r){lo,hi}
Rep(r, lo, hi) == [t |-> "rep", r |-> r, lo |-> lo, hi |-> hi]

Opt(r) == Rep(r, 0, 1)

Star(r) == Rep(r, 0, Unbounded)

\* (?!r)
NotAhead(r) == [t |-> "nla", r |-> r]

\* a value assigned to a local variable: v is computed once and F reads it
With(v, F(_)) == F(v)

MinOf(S) == CHOOSE x \in S : \A y \in S : x <= y

MaxOf(S) == CHOOSE x \in S : \A y \in S : y <= x

\* how many characters of S follow one another from position i of s, counted
\* up to max
RunLen(S, s, i, max) ==
    LET last  == IF i + max - 1 < Len(s) THEN i + max - 1 ELSE Len(s)
        stops == {k \in i..last : s[k] \notin S}
    IN  IF stops = {} THEN last - i + 1 ELSE MinOf(stops) - i

\* a greedy run gives back one character at a time
RunEnds(S, lo, hi, s, i) ==
    IF i > Len(s) \/ s[i] \notin S
    THEN (IF lo = 0 THEN << i >> ELSE << >>)
    ELSE LET m == RunLen(S, s, i, IF hi = Unbounded THEN Len(s) ELSE hi)
         IN  IF m < lo THEN << >> ELSE [k \in 1..(m - lo + 1) |-> i + m - k + 1]

WordAt(w, ci, s, i) ==
    /\ i + Len(w) - 1 <= Len(s)
    /\ \A j \in 1..Len(w) :
          IF ci THEN LowerChar(s[i + j - 1]) = LowerChar(w[j]) ELSE s[i + j - 1] = w[j]

RECURSIVE Ends(_, _, _), EndsFromAll(_, _, _, _), SeqEnds(_, _, _, _), AltEnds(_, _, _, _), RepEnds(_, _, _, _, _), RepOver(_, _, _, _, _, _)

\* the ends of r from each of the positions starts[k..]
EndsFromAll(r, s, starts, k) ==
    IF k > Len(starts) THEN << >>
    ELSE Ends(r, s, starts[k]) \o EndsFromAll(r, s, starts, k + 1)

\* the ends of rs[j..] from the positions starts
SeqEnds(rs, j, s, starts) ==
    IF j > Len(rs) \/ starts = << >> THEN starts
    ELSE SeqEnds(rs, j + 1, s, EndsFromAll(rs[j], s, starts, 1))

AltEnds(rs, j, s, i) ==
    IF j > Len(rs) THEN << >>
    ELSE Ends(rs[j], s, i) \o AltEnds(rs, j + 1, s, i)

\* the ends of r{lo,hi} from each of the positions es[k..]
RepOver(es, k, r, lo, hi, s) ==
    IF k > Len(es) THEN << >>
    ELSE RepEnds(r, lo, hi, s, es[k]) \o RepOver(es, k + 1, r, lo, hi, s)

\* one more copy of r first, none after it
RepEnds(r, lo, hi, s, i) ==
    (IF hi = 0 THEN << >>
     ELSE RepOver(SelectSeq(Ends(r, s, i), LAMBDA e : e > i), 1, r,
                  IF lo > 0 THEN lo - 1 ELSE 0,
                  IF hi = Unbounded THEN Unbounded ELSE hi - 1, s))
    \o (IF lo = 0 THEN << i >> ELSE << >>)

Ends(r, s, i) ==
    CASE r.t = "set"  -> IF i <= Len(s) /\ s[i] \in r.s THEN << i + 1 >> ELSE << >>
      [] r.t = "nset" -> IF i <= Len(s) /\ s[i] \notin r.s THEN << i + 1 >> ELSE << >>
      [] r.t = "str"  -> IF WordAt(r.w, r.ci, s, i) THEN << i + Len(r.w) >> ELSE << >>
      [] r.t = "run"  -> RunEnds(r.s, r.lo, r.hi, s, i)
      [] r.t = "seq"  -> SeqEnds(r.rs, 1, s, << i >>)
      [] r.t = "alt"  -> AltEnds(r.rs, 1, s, i)
      [] r.t = "rep"  -> RepEnds(r.r, r.lo, r.hi, s, i)
      [] r.t = "nla"  -> IF Ends(r.r, s, i) = << >> THEN << i >> ELSE << >>

\* re.search from position i on: << >> or << <<start, end>> >>
SearchFrom(r, s, i) ==
    With({k \in i..(Len(s) + 1) : Ends(r, s, k) # << >>}, LAMBDA starts :
        IF starts = {} THEN << >>
        ELSE With(MinOf(starts), LAMBDA k : << <<k, Ends(r, s, k)[1]>> >>))

\* the spans of re.finditer: leftmost matches, none overlapping
RECURSIVE SpansFrom(_, _, _)
SpansFrom(r, s, i) ==
    With(SearchFrom(r, s, i), LAMBDA m :
        IF m = << >> THEN << >>
        ELSE << m[1] >>
             \o SpansFrom(r, s, IF m[1][2] > m[1][1] THEN m[1][2] ELSE m[1][2] + 1))

\* re.findall for a pattern without groups
FindAll(r, s) ==
    With(SpansFrom(r, s, 1), LAMBDA sp :
        [k \in 1..Len(sp) |-> Slice(s, sp[k][1], sp[k][2])])

\* re.sub(r'[S]', '', s) and re.sub(r'[S]+', '', s): every character of S goes
RemoveChars(S, s) == SelectSeq(s, LAMBDA c : c \notin S)

\* re.sub(r'[^S]', '', s): every character outside S goes
KeepChars(S, s) == SelectSeq(s, LAMBDA c : c \in S)

---------------------------------------------------------------------------
(* Python floats (IEEE 754 binary64).  A non-negative float is the set of  *)
(* the positions of the one bits of value * 2^FracBits, so every operation *)
(* is exact integer arithmetic followed by the rounding of the hardware:   *)
(* to Precision significant bits, ties to even.                            *)

FracBits == 64

Precision == 53

Pow2(k) == 2 ^ k

BitsOfInt(n) == {i \in 0..30 : (n \div Pow2(i)) % 2 = 1}

RECURSIVE IntOfBits(_)
IntOfBits(B) ==
    IF B = {} THEN 0
    ELSE LET i == CHOOSE x \in B : TRUE IN Pow2(i) + IntOfBits(B \ {i})

Shift(B, k) == {i + k : i \in B}

Bit(B, p) == IF p \in B THEN 1 ELSE 0

\* the carry into position p of A + B: the last position below p that
\* generates a carry, with every position after it passing the carry on
Carry(A, B, p) ==
    LET G == {q \in A \cap B : q < p}
    IN  G # {} /\ \A m \in (MaxOf(G) + 1)..(p - 1) : m \in A \/ m \in B

BigAdd(A, B) ==
    IF A = {} THEN B
    ELSE IF B = {} THEN A
    ELSE {p \in 0..(MaxOf(A \cup B) + 1) :
             (Bit(A, p) + Bit(B, p) + (IF Carry(A, B, p) THEN 1 ELSE 0)) % 2 = 1}

\* the borrow from position p of A - B
Borrow(A, B, p) ==
    LET G == {q \in B \ A : q < p}
    IN  G # {} /\ \A m \in (MaxOf(G) + 1)..(p - 1) : m \notin A \/ m \in B

\* A - B for A >= B
BigSub(A, B) ==
    IF B = {} THEN A
    ELSE {p \in 0..MaxOf(A) :
             (Bit(A, p) + Bit(B, p) + (IF Borrow(A, B, p) THEN 1 ELSE 0)) % 2 = 1}

BigLess(A, B) ==
    /\ A # B
    /\ MaxOf((A \ B) \cup (B \ A)) \in B

\* round to Precision significant bits, ties to even; sticky says that the
\* exact value has further one bits below position 0
Round(B, sticky) ==
    IF B = {} THEN {}
    ELSE LET low == MaxOf(B) - (Precision - 1)
         IN  IF low <= 0 THEN B
             ELSE LET keep  == {i \in B : i >= low}
                      guard == (low - 1) \in B
                      rest  == sticky \/ \E i \in B : i < low - 1
                  IN  IF guard /\ (rest \/ low \in B)
                      THEN BigAdd(keep, {low})
                      ELSE keep

\* long division takes ChunkBits binary digits at a time, so that the
\* remainder times 2^ChunkBits stays within the integers for d < 2^15
ChunkBits == FracBits \div 4

\* the binary digits of r / d (r < d) below the point, from digit
\* c * ChunkBits + 1 on down to position 0, and whether anything is left
\* below position 0
RECURSIVE FracDigits(_, _, _)
FracDigits(r, d, c) ==
    IF c * ChunkBits >= FracBits THEN [bits |-> {}, sticky |-> r # 0]
    ELSE LET q    == (r * Pow2(ChunkBits)) \div d
             here == {FracBits - (c + 1) * ChunkBits + i :
                         i \in {j \in 0..(ChunkBits - 1) : (q \div Pow2(j)) % 2 = 1}}
             next == FracDigits((r * Pow2(ChunkBits)) % d, d, c + 1)
         IN  [bits   |-> {p \in here : p >= 0} \cup next.bits,
              sticky |-> next.sticky \/ \E p \in here : p < 0]

\* the float nearest to n / d (int / int, and float() of a decimal literal)
FloatOfRatio(n, d) ==
    LET f == FracDigits(n % d, d, 0)
    IN  Round(Shift(BitsOfInt(n \div d), FracBits) \cup f.bits, f.sticky)

FloatOfInt(n) == FloatOfRatio(n, 1)

FloatZero == {}

\* a + b
FAdd(a, b) == Round(BigAdd(a, b), FALSE)

\* abs(a - b)
FAbsDiff(a, b) == Round(IF BigLess(a, b) THEN BigSub(b, a) ELSE BigSub(a, b), FALSE)

FLess(a, b) == BigLess(a, b)

\* a * n for a float a and a small integer n
RECURSIVE SumShifts(_, _)
SumShifts(a, N) ==
    IF N = {} THEN {}
    ELSE LET i == CHOOSE x \in N : TRUE
         IN  BigAdd(Shift(a, i), SumShifts(a, N \ {i}))

FMulInt(a, n) == Round(SumShifts(a, BitsOfInt(n)), FALSE)

\* int(a): truncation
IntOfFloat(a) == IntOfBits({i - FracBits : i \in {j \in a : j >= FracBits}})

DigitSeq == <<"0", "1", "2", "3", "4", "5", "6", "7", "8", "9">>

DigitVal(c) == (CHOOSE i \in 1..10 : DigitSeq[i] = c) - 1

RECURSIVE NatOfDigits(_)
NatOfDigits(ds) ==
    IF ds = << >> THEN 0
    ELSE 10 * NatOfDigits(SubSeq(ds, 1, Len(ds) - 1)) + DigitVal(ds[Len(ds)])

\* float(s) for a string of digits and points: << >> when it raises
\* ValueError, << the float >> otherwise
ParseFloat(s) ==
    LET dots == {i \in 1..Len(s) : s[i] = "."}
    IN  IF s = << >> \/ Cardinality(dots) > 1 \/ Len(s) = Cardinality(dots)
           \/ \E i \in 1..Len(s) : s[i] \notin Digits \cup {"."}
        THEN << >>
        ELSE LET p    == IF dots = {} THEN Len(s) + 1 ELSE CHOOSE i \in dots : TRUE
                 frac == Len(s) - p
             IN  << FloatOfRatio(NatOfDigits(RemoveChar(s, ".")),
                                 10 ^ (IF frac > 0 THEN frac ELSE 0)) >>

---------------------------------------------------------------------------
(* Outcomes of a call.                                                     *)

None == << >>

Some(v) == << v >>

Ret(v) == [status |-> "returned", exc |-> "", val |-> v]

Raise(e) == [status |-> "raised", exc |-> e, val |-> << >>]

\* `not text` for an Optional[str]
Falsy(t) == t = None \/ t[1] = << >>

D2 == Run(Digits, 2, 2)

D4 == Run(Digits, 4, 4)

DateSep == Cls({"/", "-"})

---------------------------------------------------------------------------
(* extract_dates                                                           *)

pattern1 == Cat(<<D2, DateSep, D2, DateSep, D4>>)

pattern2 == Cat(<<D2, DateSep, D2, DateSep, D2, NotAhead(Cls(Digits))>>)

pattern3 == Cat(<<D4, DateSep, D2, DateSep, D2>>)

\* list(dict.fromkeys(xs)): the first occurrence of each element, in order
Dedup(xs) ==
    LET firsts == {i \in 1..Len(xs) : \A j \in 1..(i - 1) : xs[j] # xs[i]}
    IN  [k \in 1..Cardinality(firsts) |-> xs[Nth(firsts, k)]]

\* the matches as collected, duplicates kept
extract_dates_NoDedup(t) ==
    IF Falsy(t) THEN << >>
    ELSE FindAll(pattern1, t[1]) \o FindAll(pattern2, t[1]) \o FindAll(pattern3, t[1])

extract_dates(t) ==
    IF Falsy(t) THEN << >>
    ELSE Dedup(FindAll(pattern1, t[1]) \o FindAll(pattern2, t[1]) \o FindAll(pattern3, t[1]))

---------------------------------------------------------------------------
(* extract_amounts                                                         *)

\* the character U+20AC, the euro sign
Euro == "EUR"

amount_pattern ==
    Cat(<<Opt(Alt(<<Word(<<"R", "M">>),
                    Cat(<<Word(<<"R", "s">>), Opt(Lit("."))>>),
                    Lit("$"),
                    Lit(Euro)>>)),
          Run(Whitespace, 0, Unbounded),
          Run(Digits, 1, 3),
          Star(Cat(<<Lit(","), Run(Digits, 3, 3)>>)),
          Cls({".", ","}),
          D2>>)

\* re.sub(r'[^\d.,]', '', amt_str).replace(',', '.')
CleanAmount(amt_str) ==
    ReplaceChar(KeepChars(Digits \cup {".", ","}, amt_str), ",", ".")

\* the loop left at the first token float() rejects
RECURSIVE AmountsOf_Stop(_, _)
AmountsOf_Stop(amounts_strings, k) ==
    IF k > Len(amounts_strings) THEN << >>
    ELSE With(ParseFloat(CleanAmount(amounts_strings[k])), LAMBDA f :
             IF f = << >> THEN << >>
             ELSE << f[1] >> \o AmountsOf_Stop(amounts_strings, k + 1))

\* the loop over amounts_strings: a token float() rejects is skipped
RECURSIVE AmountsOf(_, _)
AmountsOf(amounts_strings, k) ==
    IF k > Len(amounts_strings) THEN << >>
    ELSE With(ParseFloat(CleanAmount(amounts_strings[k])), LAMBDA f :
             (IF f = << >> THEN << >> ELSE << f[1] >>)
             \o AmountsOf(amounts_strings, k + 1))

extract_amounts(t) ==
    IF Falsy(t) THEN Ret(<< >>)
    ELSE Ret(AmountsOf(FindAll(amount_pattern, t[1]), 1))

---------------------------------------------------------------------------
(* extract_total                                                           *)

WsStar == Run(Whitespace, 0, Unbounded)

total_keyword ==
    Alt(<<IWord(<<"T", "O", "T", "A", "L">>),
          Cat(<<IWord(<<"G", "R", "A", "N", "D">>), WsStar,
                IWord(<<"T", "O", "T", "A", "L">>)>>),
          Cat(<<IWord(<<"A", "M", "O", "U", "N", "T">>), WsStar,
                IWord(<<"D", "U", "E">>)>>),
          IWord(<<"B", "A", "L", "A", "N", "C", "E">>)>>)

\* what precedes group 1 of the pattern, and group 1
total_prefix == Cat(<<total_keyword, WsStar, Opt(Lit(":")), WsStar>>)

total_group == Cat(<<Run(Digits, 1, Unbounded), Cls({".", ","}), D2>>)

Empty == Cat(<< >>)

\* the span of the group of pre(grp)post matched at position i:
\* << >> or << <<start, end>> >>
RECURSIVE GroupOver(_, _, _, _, _)
GroupOver(ps, k, grp, post, s) ==
    IF k > Len(ps) THEN << >>
    ELSE With(SelectSeq(Ends(grp, s, ps[k]), LAMBDA e : Ends(post, s, e) # << >>),
              LAMBDA es : IF es # << >> THEN << <<ps[k], es[1]>> >>
                          ELSE GroupOver(ps, k + 1, grp, post, s))

GroupAt(pre, grp, post, s, i) == GroupOver(Ends(pre, s, i), 1, grp, post, s)

\* re.search(...).group(1) for a pattern pre(grp)post: << >> or << the group >>
SearchGroup(pre, grp, post, s) ==
    With({k \in 1..(Len(s) + 1) : GroupAt(pre, grp, post, s, k) # << >>}, LAMBDA starts :
        IF starts = {} THEN << >>
        ELSE With(GroupAt(pre, grp, post, s, MinOf(starts)), LAMBDA g :
                 << Slice(s, g[1][1], g[1][2]) >>))

extract_total(t) ==
    IF Falsy(t) THEN Ret(None)
    ELSE With(SearchGroup(total_prefix, total_group, Empty, t[1]), LAMBDA match :
             IF match = << >> THEN Ret(None)
             ELSE With(ParseFloat(ReplaceChar(match[1], ",", ".")), LAMBDA amount :
                      IF amount = << >> THEN Raise("ValueError")
                      ELSE Ret(Some(amount[1]))))

---------------------------------------------------------------------------
(* extract_vendor                                                          *)

company_suffixes ==
    {<<"S", "D", "N", " ", "B", "H", "D">>, <<"I", "N", "C">>, <<"L", "T", "D">>,
     <<"L", "L", "C">>, <<"P", "L", "C">>, <<"C", "O", "R", "P">>,
     <<"P", "T", "Y">>, <<"P", "V", "T">>}

SymbolChars == {"*", "-", "=", "_", "#"}

MinVendorLen == 3

FallbackLines == 10

\* all(c in '*-=_#' for c in line.replace(' ', ''))
OnlySymbols(line) == \A i \in 1..Len(line) : line[i] \in SymbolChars \cup {" "}

NonTrivial(line) == Len(line) >= MinVendorLen /\ ~OnlySymbols(line)

HasSuffix(line) == \E suffix \in company_suffixes : Contains(StrUpper(line), suffix)

\* the first non-trivial line taken before the suffix lines are looked for
extract_vendor_FallbackFirst(t) ==
    IF Falsy(t) THEN None
    ELSE LET lines  == SplitLines(Strip(t[1]))
             line(i) == Strip(lines[i])
             hits   == {i \in 1..Len(lines) : NonTrivial(line(i)) /\ HasSuffix(line(i))}
             firsts == {i \in 1..Len(lines) : i <= FallbackLines /\ NonTrivial(line(i))}
         IN  IF firsts # {} THEN Some(line(MinOf(firsts)))
             ELSE IF hits # {} THEN Some(line(MinOf(hits)))
             ELSE None

extract_vendor(t) ==
    IF Falsy(t) THEN None
    ELSE LET lines  == SplitLines(Strip(t[1]))
             line(i) == Strip(lines[i])
             hits   == {i \in 1..Len(lines) : NonTrivial(line(i)) /\ HasSuffix(line(i))}
             firsts == {i \in 1..Len(lines) : i <= FallbackLines /\ NonTrivial(line(i))}
         IN  IF hits # {} THEN Some(line(MinOf(hits)))
             ELSE IF firsts # {} THEN Some(line(MinOf(firsts)))
             ELSE None

---------------------------------------------------------------------------
(* extract_invoice_number                                                  *)

invoice_keywords ==
    {<<"n", "v", "o", "i", "c", "e">>, <<"r", "e", "c", "e", "i", "p", "t">>,
     <<"b", "i", "l", "l">>, <<"n", "o">>}

InvoiceLines == 15

MinInvoiceLen == 5

invoice_pattern ==
    Cat(<<Run(Letters, 2, Unbounded),
          Run(Letters \cup Digits \cup {"-"}, 3, Unbounded)>>)

Qualifies(pattern) ==
    /\ Len(pattern) >= MinInvoiceLen
    /\ \E i \in 1..Len(pattern) : pattern[i] \in Digits
    /\ \E i \in 1..Len(pattern) : pattern[i] \in Letters

\* the first qualifying token of a keyword line: << >> or << token >>
LineInvoice(line) ==
    IF \E keyword \in invoice_keywords : Contains(StrLower(line), keyword)
    THEN With(SelectSeq(FindAll(invoice_pattern, line), Qualifies), LAMBDA good :
             IF good = << >> THEN << >> ELSE << StrUpper(good[1]) >>)
    ELSE << >>

\* every line looked at, not only the first InvoiceLines
extract_invoice_number_AnyLine(t) ==
    IF Falsy(t) THEN None
    ELSE With(SplitLines(t[1]), LAMBDA lines :
         With({i \in 1..Len(lines) : LineInvoice(lines[i]) # << >>},
              LAMBDA hits : IF hits = {} THEN None ELSE LineInvoice(lines[MinOf(hits)])))

extract_invoice_number(t) ==
    IF Falsy(t) THEN None
    ELSE With(SplitLines(t[1]), LAMBDA lines :
         With({i \in 1..Len(lines) : i <= InvoiceLines /\ LineInvoice(lines[i]) # << >>},
              LAMBDA hits : IF hits = {} THEN None ELSE LineInvoice(lines[MinOf(hits)])))

---------------------------------------------------------------------------
(* extract_bill_to                                                         *)

headings ==
    {<<"b", "i", "l", "l", " ", "t", "o">>, <<"b", "i", "l", "l", "e", "d", " ", "t", "o">>,
     <<"b", "i", "l", "l", "i", "n", "g", " ", "n", "a", "m", "e">>,
     <<"c", "u", "s", "t", "o", "m", "e", "r">>}

\* the line boundaries of str.splitlines()
LineBreaks == {"\n", "\r", "\f"}

\* [line.strip() for line in text.splitlines() if line.strip()]
StrippedLines(s) ==
    LET ls == SplitOn(s, LineBreaks)
    IN  SelectSeq([i \in 1..Len(ls) |-> Strip(ls[i])], LAMBDA l : l # << >>)

email_chars == WordChars \cup {".", "-"}

email_pattern ==
    Cat(<<Run(email_chars, 1, Unbounded), Lit("@"), Run(email_chars, 1, Unbounded), Lit("."),
          Run(WordChars, 1, Unbounded)>>)

\* str.replace(old, '') for a non-empty old, from position i on
RECURSIVE RemoveAll(_, _, _)
RemoveAll(s, old, i) ==
    LET at == {k \in i..Len(s) : IsAt(old, s, k)}
    IN  IF at = {} THEN Slice(s, i, Len(s) + 1)
        ELSE Slice(s, i, MinOf(at)) \o RemoveAll(s, old, MinOf(at) + Len(old))

MinNameLen == 2

\* the next line taken when nothing follows the separator
BillToText_Fallback(lines, i) ==
    LET seps == {j \in 1..Len(lines[i]) : lines[i][j] \in {":", "-"}}
    IN  IF seps # {} /\ Strip(Slice(lines[i], MinOf(seps) + 1, Len(lines[i]) + 1)) # << >>
        THEN Some(Strip(Slice(lines[i], MinOf(seps) + 1, Len(lines[i]) + 1)))
        ELSE IF i + 1 <= Len(lines) THEN Some(Strip(lines[i + 1]))
        ELSE None

\* the text taken from the heading line i of lines: None or the text
BillToText(lines, i) ==
    LET seps == {j \in 1..Len(lines[i]) : lines[i][j] \in {":", "-"}}
    IN  IF seps # {}
        THEN Some(Strip(Slice(lines[i], MinOf(seps) + 1, Len(lines[i]) + 1)))
        ELSE IF i + 1 <= Len(lines) THEN Some(Strip(lines[i + 1]))
        ELSE None

\* the text of the first heading line of lines: None or the text
HeadingText(lines) ==
    With({i \in 1..Len(lines) : \E h \in headings : Contains(StrLower(lines[i]), h)},
         LAMBDA heads : IF heads = {} THEN None ELSE BillToText(lines, MinOf(heads)))

\* no email address looked for
EmailOf_Never(bill_to_text) == None

\* email_match.group(0) if email_match else None
EmailOf(bill_to_text) ==
    With(SearchFrom(email_pattern, bill_to_text, 1), LAMBDA email_match :
        IF email_match = << >> THEN None
        ELSE Some(Slice(bill_to_text, email_match[1][1], email_match[1][2])))

\* the name taken whatever its length
extract_bill_to_AnyName(t) ==
    IF Falsy(t) THEN None
    ELSE With(HeadingText(StrippedLines(t[1])), LAMBDA bill_to_text :
             IF Falsy(bill_to_text) THEN None
             ELSE With(EmailOf(bill_to_text[1]), LAMBDA email :
                  With(IF email = None THEN bill_to_text[1]
                       ELSE Strip(RemoveAll(bill_to_text[1], email[1], 1)),
                       LAMBDA name : Some([name |-> name, email |-> email]))))

\* the record made of the candidate text: None for no text
BillToOf(bill_to_text) ==
    IF Falsy(bill_to_text) THEN None
    ELSE With(EmailOf(bill_to_text[1]), LAMBDA email :
         With(IF email = None THEN bill_to_text[1]
              ELSE Strip(RemoveAll(bill_to_text[1], email[1], 1)),
              LAMBDA name : IF Len(name) > MinNameLen
                            THEN Some([name |-> name, email |-> email])
                            ELSE None))

extract_bill_to(t) ==
    IF Falsy(t) THEN None
    ELSE BillToOf(HeadingText(StrippedLines(t[1])))

---------------------------------------------------------------------------
(* extract_line_items                                                      *)

start_keywords ==
    {<<"d", "e", "s", "c", "r", "i", "p", "t", "i", "o", "n">>, <<"i", "t", "e", "m">>,
     <<"q", "t", "y">>, <<"p", "r", "i", "c", "e">>, <<"a", "m", "o", "u", "n", "t">>}

end_keywords ==
    {<<"t", "o", "t", "a", "l">>, <<"s", "u", "b", "t", "o", "t", "a", "l">>,
     <<"t", "a", "x">>, <<"g", "s", "t">>}

NoStart == -1

\* the section loop from line i on (i, start_index and end_index count from
\* 0 as in the source): <<start_index, end_index>>
RECURSIVE Section(_, _, _)
Section(lines, i, start_index) ==
    IF i >= Len(lines) THEN <<start_index, Len(lines)>>
    ELSE LET lower == StrLower(lines[i + 1])
             st    == IF start_index = NoStart
                         /\ \E k \in start_keywords : Contains(lower, k)
                      THEN i + 1 ELSE start_index
         IN  IF st # NoStart /\ \E k \in end_keywords : Contains(lower, k)
             THEN <<st, i>>
             ELSE Section(lines, i + 1, st)

number_pattern ==
    Cat(<<Run(Digits, 1, Unbounded), Opt(Cat(<<Lit("."), Run(Digits, 1, Unbounded)>>))>>)

NumberChars == Digits \cup {"."} \cup Whitespace

\* the quantity read from the first digit run anywhere in the line
Quantity_AnyRun(line) ==
    With({i \in 1..Len(line) : line[i] \in Digits}, LAMBDA at :
         IF at = {} THEN 1
         ELSE NatOfDigits(Slice(line, MinOf(at),
                                MinOf(at) + RunLen(Digits, line, MinOf(at), Len(line)))))

\* int(qty_match.group(1)) if qty_match else 1
Quantity(line) ==
    With(GroupAt(WsStar, Run(Digits, 1, Unbounded), Cat(<<WsStar, Opt(Lit("x"))>>), line, 1),
         LAMBDA qty_match :
            IF qty_match = << >> THEN 1
            ELSE NatOfDigits(Slice(line, qty_match[1][1], qty_match[1][2])))

\* current_description replaced by desc_part
Described_Overwrite(current_description, desc_part) ==
    IF Len(desc_part) > 0 THEN desc_part ELSE current_description

\* current_description once desc_part is added to it
Described(current_description, desc_part) ==
    IF Len(desc_part) > 0
    THEN (IF current_description # << >>
          THEN current_description \o <<" ">> \o desc_part
          ELSE desc_part)
    ELSE current_description

\* the loop with the description kept after an item
RECURSIVE ItemsFrom_KeepBuffer(_, _, _)
ItemsFrom_KeepBuffer(item_lines, k, current_description) ==
    IF k > Len(item_lines) THEN << >>
    ELSE With(item_lines[k], LAMBDA line :
         With(FindAll(number_pattern, KeepChars(NumberChars, line)), LAMBDA amounts_on_line :
         With(Described(current_description, Strip(RemoveChars(NumberChars, line))),
              LAMBDA description :
             IF amounts_on_line # << >> /\ description # << >>
             THEN With(ParseFloat(amounts_on_line[Len(amounts_on_line)]), LAMBDA item_total :
                  With(IF Len(amounts_on_line) > 1
                       THEN ParseFloat(amounts_on_line[Len(amounts_on_line) - 1])
                       ELSE item_total, LAMBDA unit_price :
                      << [description |-> Strip(description),
                          quantity    |-> Quantity(line),
                          unit_price  |-> unit_price[1],
                          total       |-> item_total[1]] >>
                      \o ItemsFrom_KeepBuffer(item_lines, k + 1, description)))
             ELSE ItemsFrom_KeepBuffer(item_lines, k + 1, description))))

\* the loop over item_lines from the k-th line on
RECURSIVE ItemsFrom(_, _, _)
ItemsFrom(item_lines, k, current_description) ==
    IF k > Len(item_lines) THEN << >>
    ELSE With(item_lines[k], LAMBDA line :
         With(FindAll(number_pattern, KeepChars(NumberChars, line)), LAMBDA amounts_on_line :
         With(Described(current_description, Strip(RemoveChars(NumberChars, line))),
              LAMBDA description :
             IF amounts_on_line # << >> /\ description # << >>
             THEN With(ParseFloat(amounts_on_line[Len(amounts_on_line)]), LAMBDA item_total :
                  With(IF Len(amounts_on_line) > 1
                       THEN ParseFloat(amounts_on_line[Len(amounts_on_line) - 1])
                       ELSE item_total, LAMBDA unit_price :
                      IF item_total = << >> \/ unit_price = << >>
                      THEN ItemsFrom(item_lines, k + 1, << >>)
                      ELSE << [description |-> Strip(description),
                               quantity    |-> Quantity(line),
                               unit_price  |-> unit_price[1],
                               total       |-> item_total[1]] >>
                           \o ItemsFrom(item_lines, k + 1, << >>)))
             ELSE ItemsFrom(item_lines, k + 1, description))))

\* the section taken to start at the top of the text
extract_line_items_FromTop(t) ==
    IF t = None THEN Raise("AttributeError")
    ELSE With(SplitLines(t[1]), LAMBDA lines :
         With(Section(lines, 0, 0), LAMBDA sec :
             Ret(ItemsFrom(SubSeq(lines, sec[1] + 1, sec[2]), 1, << >>))))

extract_line_items(t) ==
    IF t = None THEN Raise("AttributeError")
    ELSE With(SplitLines(t[1]), LAMBDA lines :
         With(Section(lines, 0, NoStart), LAMBDA sec :
             IF sec[1] = NoStart THEN Ret(<< >>)
             ELSE Ret(ItemsFrom(SubSeq(lines, sec[1] + 1, sec[2]), 1, << >>))))

---------------------------------------------------------------------------
(* structure_output                                                        *)

\* sum(item.get('total', 0) for item in items): 0 + t1 + t2 + ...
RECURSIVE SumTotals(_, _)
SumTotals(items, k) ==
    IF k = 0 THEN FloatZero
    ELSE FAdd(SumTotals(items, k - 1), items[k].total)

\* the validation threshold 0.01
Epsilon == FloatOfRatio(1, 100)

Percent == 100

\* the score with the items bonus left out of the divisor
Confidence_NoBonus(extracted_fields, n_fields) ==
    IntOfFloat(FMulInt(FloatOfRatio(extracted_fields, n_fields), Percent))

\* int((extracted_fields / (len(fields_to_check) + 1)) * 100)
Confidence(extracted_fields, n_fields) ==
    IntOfFloat(FMulInt(FloatOfRatio(extracted_fields, n_fields + 1), Percent))

\* the check with abs() left out
Validate_NoAbs(total, items_total) ==
    /\ total # None
    /\ \/ BigLess(total[1], items_total)
       \/ FLess(Round(BigSub(total[1], items_total), FALSE), Epsilon)

\* total is not None and abs(total - items_total) < 0.01
Validate(total, items_total) ==
    total # None /\ FLess(FAbsDiff(total[1], items_total), Epsilon)

fields_to_check == {"receipt_number", "date", "bill_to", "total_amount"}

\* validation_passed set only where the check passes
Assemble_FlagWhenPassed(t, date, total, bill_to, items, invoice_num) ==
    LET data == [receipt_number |-> invoice_num,
                 date           |-> date,
                 bill_to        |-> bill_to,
                 items          |-> items,
                 total_amount   |-> total,
                 raw_text       |-> t[1],
                 extraction_confidence |->
                     Confidence((IF items # << >> THEN 1 ELSE 0)
                                + Cardinality({f \in {invoice_num, date, bill_to, total} :
                                                  f # None}),
                                Cardinality(fields_to_check))]
    IN  IF Validate(total, SumTotals(items, Len(items)))
        THEN [f \in DOMAIN data \cup {"validation_passed"} |->
                 IF f = "validation_passed" THEN TRUE ELSE data[f]]
        ELSE data

Assemble(t, date, total, bill_to, items, invoice_num) ==
    LET data == [receipt_number |-> invoice_num,
                 date           |-> date,
                 bill_to        |-> bill_to,
                 items          |-> items,
                 total_amount   |-> total,
                 raw_text       |-> t[1]]
        checked == Cardinality({field \in fields_to_check : data[field] # None})
        extracted_fields == IF items # << >> THEN checked + 1 ELSE checked
        items_total == SumTotals(items, Len(items))
    IN  [receipt_number        |-> data.receipt_number,
         date                  |-> data.date,
         bill_to               |-> data.bill_to,
         items                 |-> data.items,
         total_amount          |-> data.total_amount,
         raw_text              |-> data.raw_text,
         extraction_confidence |->
             Confidence(extracted_fields, Cardinality(fields_to_check)),
         validation_passed     |-> Validate(total, items_total)]

\* the date taken without the emptiness test
structure_output_Unguarded(t) ==
    With(extract_dates(t), LAMBDA dates :
    With(extract_total(t), LAMBDA total :
    With(extract_line_items(t), LAMBDA items :
        IF dates = << >> THEN Raise("IndexError")
        ELSE IF total.status = "raised" THEN total
        ELSE IF items.status = "raised" THEN items
        ELSE Ret(Assemble(t, Some(dates[1]), total.val, extract_bill_to(t), items.val,
                          extract_invoice_number(t))))))

structure_output(t) ==
    With(extract_total(t), LAMBDA total :
    With(extract_line_items(t), LAMBDA items :
        IF total.status = "raised" THEN total
        ELSE IF items.status = "raised" THEN items
        ELSE Ret(Assemble(t,
                          IF extract_dates(t) # << >> THEN Some(extract_dates(t)[1]) ELSE None,
                          total.val, extract_bill_to(t), items.val,
                          extract_invoice_number(t)))))

---------------------------------------------------------------------------
(* The calls.  A run picks one argument and calls one function on it.      *)

NoOut == [status |-> "none", exc |-> "", val |-> << >>]

\* a call of one function of extraction.py: no pipeline around it
NoPipeline ==
    /\ call = << >>
    /\ world = << >>
    /\ files = {}
    /\ printed = << >>

\* the lines of ls joined by line feeds
RECURSIVE Join(_)
Join(ls) ==
    IF ls = << >> THEN << >>
    ELSE IF Len(ls) = 1 THEN ls[1]
    ELSE ls[1] \o <<"\n">> \o Join(Tail(ls))

\* the sequences over S of length at most n
SeqsUpTo(S, n) == UNION {[1..k -> S] : k \in 0..n}

\* the subsequences of ls
SubSeqs(ls) ==
    {SelectSeq([i \in 1..Len(ls) |-> IF i \in K THEN << ls[i] >> ELSE << >>],
               LAMBDA x : x # << >>) : K \in SUBSET (1..Len(ls))}

Unwrap(ls) == [i \in 1..Len(ls) |-> ls[i][1]]

MaxItems == 2

HeadLines ==
    <<<<"I", "n", "v", "o", "i", "c", "e", " ", "N", "o", ":", " ", "A", "B", "-", "1", "2">>,
      <<"D", "a", "t", "e", ":", " ", "1", "5", "/", "0", "1", "/", "2", "0", "1", "9">>,
      <<"B", "i", "l", "l", " ", "T", "o", ":", " ", "B", "o", "b">>>>

ItemHeader == <<"I", "t", "e", "m">>

ItemLines ==
    {<<"W", "i", "d", "g", "e", "t", " ", "1", "0", ".", "0", "0">>,
     <<"2", " ", "x", " ", "1", "2", ".", "7", "5", " ", "2", "5", ".", "5", "0">>}

TotalLines ==
    {<<"T", "O", "T", "A", "L", ":", " ", "3", "5", ".", "5", "0">>,
     <<"T", "O", "T", "A", "L", ":", " ", "3", "5", ".", "5", "1">>,
     <<"T", "O", "T", "A", "L", ":", " ", "0", ".", "0", "0">>,
     <<"T", "O", "T", "A", "L", ":", " ", "1", "0", ".", "0", "0">>}

\* invoices: some of the head lines, the item table with or without its
\* header line, and a total line or none
Documents ==
    {Join(Unwrap(h) \o hd \o b \o tl) :
        h \in SubSeqs(HeadLines),
        hd \in {<< >>, << ItemHeader >>},
        b \in SeqsUpTo(ItemLines, MaxItems),
        tl \in {<< >>} \cup {<< x >> : x \in TotalLines}}

Inputs == {None} \cup {Some(d) : d \in Documents}

Init ==
    /\ text \in Inputs
    /\ pc = "start"
    /\ out = NoOut
    /\ NoPipeline

CallStructureOutput ==
    /\ pc = "start"
    /\ pc' = "structure_output"
    /\ out' = structure_output(text)
    /\ UNCHANGED <<text, call, world, files, printed>>

Next == CallStructureOutput

Spec == Init /\ [][Next]_vars

---------------------------------------------------------------------------
(* Malformed texts: lines without keywords, of symbols or of numbers only, *)
(* and keywords without what should follow them.                           *)

MaxNoiseLines == 3

NoiseLines ==
    {<<"*", "*", "*">>,
     <<"1", "2", "3", "4", "5">>,
     <<"1", ".", "2", ".", "3">>,
     <<"T", "O", "T", "A", "L", ":", " ", "x">>,
     <<"I", "t", "e", "m">>,
     <<"B", "i", "l", "l", " ", "T", "o">>,
     <<"N", "o", ":", " ", "-", "-">>}

NoiseInputs == {Some(Join(ls)) : ls \in SeqsUpTo(NoiseLines, MaxNoiseLines)}

InitNoise ==
    /\ text \in NoiseInputs
    /\ pc = "start"
    /\ out = NoOut
    /\ NoPipeline

SpecNoise == InitNoise /\ [][Next]_vars

---------------------------------------------------------------------------
(* The extractors called on their own, each on texts made for it.          *)

\* the concatenation of the strings of ts
RECURSIVE Concat(_)
Concat(ts) == IF ts = << >> THEN << >> ELSE ts[1] \o Concat(Tail(ts))

CallExtractLineItems ==
    /\ pc = "start"
    /\ pc' = "extract_line_items"
    /\ out' = extract_line_items(text)
    /\ UNCHANGED <<text, call, world, files, printed>>

CallExtractDates ==
    /\ pc = "start"
    /\ pc' = "extract_dates"
    /\ out' = Ret(extract_dates(text))
    /\ UNCHANGED <<text, call, world, files, printed>>

CallExtractTotal ==
    /\ pc = "start"
    /\ pc' = "extract_total"
    /\ out' = extract_total(text)
    /\ UNCHANGED <<text, call, world, files, printed>>

CallExtractAmounts ==
    /\ pc = "start"
    /\ pc' = "extract_amounts"
    /\ out' = extract_amounts(text)
    /\ UNCHANGED <<text, call, world, files, printed>>

CallExtractVendor ==
    /\ pc = "start"
    /\ pc' = "extract_vendor"
    /\ out' = Ret(extract_vendor(text))
    /\ UNCHANGED <<text, call, world, files, printed>>

MaxTableLines == 3

TableLines ==
    {<<"I", "t", "e", "m">>,
     <<"Q", "t", "y", " ", "P", "r", "i", "c", "e", " ", "T", "o", "t", "a", "l">>,
     <<"W", "i", "d", "g", "e", "t", " ", "A">>,
     <<"2", " ", "x", " ", "5", ".", "0", "0", " ", "1", "0", ".", "0", "0">>,
     <<"G", "a", "d", "g", "e", "t", " ", "2", "5", ".", "5", "0">>,
     <<"T", "a", "x", " ", "1", ".", "0", "0">>}

TableInputs == {Some(Join(ls)) : ls \in SeqsUpTo(TableLines, MaxTableLines)}

InitItems == text \in TableInputs /\ pc = "start" /\ out = NoOut /\ NoPipeline

NextItems == CallExtractLineItems

SpecItems == InitItems /\ [][NextItems]_vars

MaxDateTokens == 3

DateTokens ==
    {<<"D", "a", "t", "e", ":", " ">>,
     <<"1", "5", "/", "0", "1", "/", "2", "0", "1", "9">>,
     <<"1", "5", "-", "0", "1", "-", "1", "9">>,
     <<"2", "0", "1", "9", "/", "0", "1", "/", "1", "5">>,
     <<"1">>,
     <<" ">>}

DateInputs == {Some(Concat(ts)) : ts \in SeqsUpTo(DateTokens, MaxDateTokens)}

InitDates == text \in DateInputs /\ pc = "start" /\ out = NoOut /\ NoPipeline

NextDates == CallExtractDates \/ CallStructureOutput

SpecDates == InitDates /\ [][NextDates]_vars

MaxTotalTokens == 3

TotalTokens ==
    {<<"T", "O", "T", "A", "L", ":", " ">>,
     <<"1", "9", "3", ".", "0", "0">>,
     <<"5">>,
     <<"1", ",", "2", "3", "4", ".", "5", "6">>,
     <<"B", "a", "l", "a", "n", "c", "e", " ">>,
     <<"x">>}

TotalInputs == {Some(Concat(ts)) : ts \in SeqsUpTo(TotalTokens, MaxTotalTokens)}

InitTotal == text \in TotalInputs /\ pc = "start" /\ out = NoOut /\ NoPipeline

NextTotal == CallExtractTotal

SpecTotal == InitTotal /\ [][NextTotal]_vars

MaxAmountTokens == 3

AmountTokens ==
    {<<"R", "M">>,
     <<"R", "s", ".">>,
     <<"$">>,
     <<" ">>,
     <<"1", "2", "3", ".", "4", "5">>,
     <<"1", ",", "2", "3", "4", ".", "5", "6">>,
     <<"x">>}

AmountInputs == {Some(Concat(ts)) : ts \in SeqsUpTo(AmountTokens, MaxAmountTokens)}

InitAmounts == text \in AmountInputs /\ pc = "start" /\ out = NoOut /\ NoPipeline

NextAmounts == CallExtractAmounts

SpecAmounts == InitAmounts /\ [][NextAmounts]_vars

MaxPad == 11

MaxVendorLines == 2

\* a line of symbols, which no pass takes
PadLine == <<"-", "-">>

VendorLines ==
    {<<"t", "a", "n", " ", "c", "h", "a", "y", " ", "y", "e", "e">>,
     <<"O", "J", "C", " ", "M", "A", "R", "K", "E", "T", "I", "N", "G", " ", "S", "D", "N", " ", "B", "H", "D", ".">>,
     <<"a", "b">>,
     <<" ", " ", "A", "c", "m", "e", " ", "i", "n", "c", " ">>,
     <<"*", "*", "*">>,
     <<>>}

\* the text may start with an empty line, as OCR output does
LeadingLines == {<< >>, << << >> >>}

\* up to MaxPad lines of symbols, then the lines of interest
VendorInputs ==
    {Some(Join(lead \o [i \in 1..k |-> PadLine] \o ls)) :
        lead \in LeadingLines, k \in 0..MaxPad,
        ls \in SeqsUpTo(VendorLines, MaxVendorLines)}

InitVendor == text \in VendorInputs /\ pc = "start" /\ out = NoOut /\ NoPipeline

NextVendor == CallExtractVendor

SpecVendor == InitVendor /\ [][NextVendor]_vars

---------------------------------------------------------------------------
(* extract_invoice_number on its own.                                     *)

CallExtractInvoiceNumber ==
    /\ pc = "start"
    /\ pc' = "extract_invoice_number"
    /\ out' = Ret(extract_invoice_number(text))
    /\ UNCHANGED <<text, call, world, files, printed>>

MaxInvoicePad == 15

MaxInvoiceLines == 2

InvoiceTexts ==
    {<<"I", "n", "v", "o", "i", "c", "e", " ", "N", "o", ":", " ", "P", "E", "G", "I", "V", "-", "1", "0", "3", "0", "7", "6", "5">>,
     <<"N", "o", "t", "e", " ", "a", "b", "-", "1", "2", " ", "c", "d", "3", "4", "5">>,
     <<"T", "o", "t", "a", "l", " ", "A", "B", "1", "2", "3">>,
     <<"r", "e", "c", "e", "i", "p", "t", " ", "n", "u", "m", "b", "e", "r">>,
     <<"B", "i", "l", "l", " ", "i", "n", "v", "1", "2", " ", "z", "z", "-", "9", "9", "x">>,
     <<"A", "1", "B", "2", "C", "3", " ", "x", "y", "-", "7">>}

\* up to MaxInvoicePad lines without a keyword, then the lines of interest
InvoiceInputs ==
    {Some(Join([i \in 1..k |-> PadLine] \o ls)) :
        k \in 0..MaxInvoicePad, ls \in SeqsUpTo(InvoiceTexts, MaxInvoiceLines)}

InitInvoice == text \in InvoiceInputs /\ pc = "start" /\ out = NoOut /\ NoPipeline

NextInvoice == CallExtractInvoiceNumber

SpecInvoice == InitInvoice /\ [][NextInvoice]_vars

---------------------------------------------------------------------------
(* extract_bill_to, on its own and within structure_output.                *)

CallExtractBillTo ==
    /\ pc = "start"
    /\ pc' = "extract_bill_to"
    /\ out' = Ret(extract_bill_to(text))
    /\ UNCHANGED <<text, call, world, files, printed>>

MaxBillLines == 3

BillLines ==
    {<<"B", "i", "l", "l", " ", "T", "o", ":", " ", "B", "o", "b", " ", "b", "o", "b", "@", "x", ".", "i", "o">>,
     <<"B", "i", "l", "l", " ", "T", "o", ":">>,
     <<"C", "u", "s", "t", "o", "m", "e", "r">>,
     <<"A", "l">>,
     <<"B", "i", "l", "l", "e", "d", " ", "t", "o", " ", "-", " ", "a", "@", "b", ".", "c", "o">>,
     <<"1", "5", "/", "0", "1", "/", "2", "0", "1", "9", " ", "B", "o", "b", " ", "L", "e", "e">>,
     <<"I", "n", "v", "o", "i", "c", "e", " ", "N", "o", ":", " ", "A", "B", "-", "1", "2">>}

BillInputs == {Some(Join(ls)) : ls \in SeqsUpTo(BillLines, MaxBillLines)}

InitBillTo == text \in BillInputs /\ pc = "start" /\ out = NoOut /\ NoPipeline

NextBillTo == CallExtractBillTo \/ CallStructureOutput

SpecBillTo == InitBillTo /\ [][NextBillTo]_vars

---------------------------------------------------------------------------
(* extract_line_items on texts with a header line and rows below it.       *)

MaxRows == 3

RowLines ==
    {<<"W", "i", "d", "g", "e", "t", " ", "A">>, <<"2", " ", "x", " ", "5", ".", "0", "0", " ", "1", "0", ".", "0", "0">>, <<"G", "a", "d", "g", "e", "t", " ", "2", "5", ".", "5", "0">>, <<"1", "2", ".", "5", "0">>, <<"B", "l", "u", "e">>,
     <<"3", " ", "1", ".", "5", " ", "7">>, <<"T", "a", "x", " ", "1", ".", "0", "0">>}

RowInputs == {Some(Join(<<<<"I", "t", "e", "m">>>> \o ls)) : ls \in SeqsUpTo(RowLines, MaxRows)}

InitRows == text \in RowInputs /\ pc = "start" /\ out = NoOut /\ NoPipeline

NextRows == CallExtractLineItems

SpecRows == InitRows /\ [][NextRows]_vars

---------------------------------------------------------------------------
(* extract_line_items on rows that begin with and without a quantity.      *)

MaxQuantityRows == 3

QuantityLines ==
    {<<"W", "i", "d", "g", "e", "t", " ", "A">>, <<"2", " ", "x", " ", "5", ".", "0", "0", " ", "1", "0", ".", "0", "0">>, <<"G", "a", "d", "g", "e", "t", " ", "2", "5", ".", "5", "0">>, <<"1", "2", ".", "5", "0">>,
     <<" ", "4", " ", "N", "u", "t", " ", "2", ".", "0", "0">>, <<"1", "0", "x", " ", "B", "o", "l", "t", " ", "1", ".", "0", "0">>}

QuantityInputs ==
    {Some(Join(<<<<"I", "t", "e", "m">>>> \o ls)) : ls \in SeqsUpTo(QuantityLines, MaxQuantityRows)}

InitQuantity == text \in QuantityInputs /\ pc = "start" /\ out = NoOut /\ NoPipeline

NextQuantity == CallExtractLineItems

SpecQuantity == InitQuantity /\ [][NextQuantity]_vars

---------------------------------------------------------------------------
(* extract_bill_to on a heading line followed by names and addresses.      *)

MaxCandidateTokens == 3

CandidateTokens ==
    {<<"B", "o", "b">>, <<"A", "l">>, <<" ">>, <<"a", "@", "b", ".", "c", "o">>, <<"c", "-", "d", "@", "e", ".", "i", "o">>, <<"@">>, <<"x", ".", "y">>}

CandidateInputs ==
    {Some(<<"B", "i", "l", "l", " ", "T", "o", ":", " ">> \o Concat(ts)) : ts \in SeqsUpTo(CandidateTokens, MaxCandidateTokens)}

InitCandidate == text \in CandidateInputs /\ pc = "start" /\ out = NoOut /\ NoPipeline

NextCandidate == CallExtractBillTo

SpecCandidate == InitCandidate /\ [][NextCandidate]_vars

---------------------------------------------------------------------------
(* The pipeline (src/src/pipeline.py): process_invoice, the command line   *)
(* and the two test scripts.  The image, the OCR engine and the neural     *)
(* network are outside the program: `world` says whether the image file    *)
(* exists and can be decoded, whether the ML model was loaded, which       *)
(* entities the network predicts and whether the output folder can be      *)
(* written; `text` is what the OCR engine reads from the image.            *)

\* dict.get(key, default)
Get(d, key, default) == IF key \in DOMAIN d THEN d[key] ELSE default

\* d[key]
Subscript(d, key) == IF key \in DOMAIN d THEN Ret(d[key]) ELSE Raise("KeyError")

\* PurePath.name: the final component of a path
PathName(p) ==
    With({i \in 1..Len(p) : p[i] = "/"}, LAMBDA cuts :
         IF cuts = {} THEN p ELSE Slice(p, MaxOf(cuts) + 1, Len(p) + 1))

\* PurePath.stem: the name without its last suffix
PathStem(p) ==
    With(PathName(p), LAMBDA name :
    With({i \in 1..Len(name) : name[i] = "."}, LAMBDA dots :
         IF dots # {} /\ 1 < MaxOf(dots) /\ MaxOf(dots) < Len(name)
         THEN Slice(name, 1, MaxOf(dots))
         ELSE name))

RECURSIVE JoinBy(_, _)
\* sep.join(parts)
JoinBy(sep, parts) ==
    IF parts = << >> THEN << >>
    ELSE IF Len(parts) = 1 THEN parts[1]
    ELSE parts[1] \o sep \o JoinBy(sep, Tail(parts))

\* str(Path(p)) for a relative path: empty and '.' components are dropped
PathStr(p) ==
    With(SelectSeq(SplitOn(p, {"/"}), LAMBDA c : c # << >> /\ c # <<".">>), LAMBDA parts :
         IF parts = << >> THEN <<".">> ELSE JoinBy(<<"/">>, parts))

\* Path(a) / b, for a relative path a and a file name b
PathJoin(a, b) == PathStr(a \o <<"/">> \o b)

\* entities.get(label, {}).get("text")
EntityText(entities, label) ==
    IF label \in DOMAIN entities THEN Some(entities[label]) ELSE None

\* the total of the ML record: float(re.sub(r'[^\d.]', '', total_text)),
\* None when there is no text or float raises ValueError
MLTotal(total_text) ==
    IF Falsy(total_text) THEN None
    ELSE ParseFloat(KeepChars(Digits \cup {"."}, total_text[1]))

extract_ml_based(w) ==
    IF ~w.loaded THEN Raise("RuntimeError")
    ELSE IF ~w.readable THEN Raise("UnidentifiedImageError")
    ELSE Ret([receipt_number  |-> None,
              date            |-> EntityText(w.entities, "DATE"),
              bill_to         |-> None,
              items           |-> << >>,
              total_amount    |-> MLTotal(EntityText(w.entities, "TOTAL")),
              vendor          |-> EntityText(w.entities, "COMPANY"),
              address         |-> EntityText(w.entities, "ADDRESS"),
              raw_text        |-> JoinBy(<<" ">>, w.words),
              raw_ocr_words   |-> w.words,
              raw_predictions |-> w.entities])

\* ocr.extract_text: what the engine read, stripped
extract_text(ocr) == Strip(ocr)

\* the rule-based branch: load_image raises when the image cannot be
\* decoded, otherwise the OCR text is structured
extract_rules_based(w, ocr) ==
    IF ~w.readable THEN Raise("ValueError")
    ELSE structure_output(Some(extract_text(ocr)))

\* the extraction step of process_invoice: every exception of a branch is
\* wrapped in ValueError, and so is an unknown method
structured_data(method, w, ocr) ==
    With(IF method = <<"m", "l">> THEN extract_ml_based(w)
         ELSE IF method = <<"r", "u", "l", "e", "s">> THEN extract_rules_based(w, ocr)
         ELSE Raise("ValueError"),
         LAMBDA r : IF r.status = "raised" THEN Raise("ValueError") ELSE r)

\* the file process_invoice writes
json_path(image_path, method, output_dir) ==
    PathJoin(output_dir, PathStem(image_path) \o <<"_">> \o method \o <<".", "j", "s", "o", "n">>)

\* open(path, 'w') and json.dump: the file is created or replaced
Written(fs, path, data) ==
    {f \in fs : f.path # path} \cup {[path |-> path, data |-> data]}

\* process_invoice: the outcome of the call and the files after it
process_invoice(image_path, method, save_results, output_dir, w, ocr, fs) ==
    IF ~w.exists THEN [out |-> Raise("FileNotFoundError"), files |-> fs]
    ELSE With(structured_data(method, w, ocr), LAMBDA r :
         IF r.status = "raised" \/ ~save_results THEN [out |-> r, files |-> fs]
         ELSE IF ~w.writable THEN [out |-> Raise("IOError"), files |-> fs]
         ELSE [out |-> r,
               files |-> Written(fs, json_path(image_path, method, output_dir), r.val)])

\* what the command line prints when nothing was extracted
NothingPrinted(e) == [summary |-> None, saved |-> None, error |-> Some(e)]

\* the four values of the summary of main
Summary(result) ==
    [vendor         |-> Get(result, "vendor", Some(<<"N", "/", "A">>)),
     invoice_number |-> Get(result, "invoice_number", Some(<<"N", "/", "A">>)),
     date           |-> Get(result, "date", Some(<<"N", "/", "A">>)),
     total          |-> Get(result, "total", Some(FloatZero))]

\* the path main reports after --save
ReportedByMain(args) == args.output_dir \o <<"/">> \o PathStem(args.image_path) \o <<".", "j", "s", "o", "n">>

\* main for a path that is not a folder: the exit status, the files and
\* what was printed
main(args, w, ocr, fs) ==
    IF ~w.exists
    THEN [out |-> Ret(1), files |-> fs, printed |-> NothingPrinted("FileNotFoundError")]
    ELSE With(process_invoice(args.image_path, args.method, args.save_results,
                              args.output_dir, w, ocr, fs),
         LAMBDA r :
         IF r.out.status = "raised"
         THEN [out |-> Ret(1), files |-> r.files, printed |-> NothingPrinted(r.out.exc)]
         ELSE [out |-> Ret(0), files |-> r.files,
               printed |-> [summary |-> Some(Summary(r.out.val)),
                            saved   |-> IF args.save_results
                                        THEN Some(ReportedByMain(args)) ELSE None,
                            error   |-> None]])

\* the path tests/test_pipeline.py reports
ReportedByTest(args) == PathJoin(args.output_dir, PathStem(args.image_path) \o <<".", "j", "s", "o", "n">>)

\* tests/test_pipeline.py: process_invoice with the default method and
\* save_results; the summary formats total_amount with :.2f, which raises
\* TypeError for None
test_pipeline(args, w, ocr, fs) ==
    IF ~w.exists
    THEN [out |-> Ret(None), files |-> fs, printed |-> NothingPrinted("not found")]
    ELSE With(process_invoice(args.image_path, <<"m", "l">>, TRUE, args.output_dir, w, ocr, fs),
         LAMBDA r :
         IF r.out.status = "raised"
         THEN [out |-> Ret(None), files |-> r.files, printed |-> NothingPrinted(r.out.exc)]
         ELSE IF Get(r.out.val, "total_amount", Some(FloatZero)) = None
         THEN [out |-> Raise("TypeError"), files |-> r.files,
               printed |-> NothingPrinted("TypeError")]
         ELSE [out |-> Ret(None), files |-> r.files,
               printed |-> [summary |-> None,
                            saved   |-> Some(ReportedByTest(args)),
                            error   |-> None]])

\* the summary of tests/test_full_pipeline.py: four subscripts, the first
\* missing key ends the script
SummaryBySubscript(result) ==
    With(SelectSeq(<<"vendor", "invoice_number", "date", "total">>,
                   LAMBDA k : k \notin DOMAIN result),
         LAMBDA missing :
         IF missing # << >> THEN Subscript(result, missing[1])
         ELSE Ret([vendor         |-> result["vendor"],
                   invoice_number |-> result["invoice_number"],
                   date           |-> result["date"],
                   total          |-> result["total"]]))

\* tests/test_full_pipeline.py: the rule-based steps without a try block
test_full_pipeline(w, ocr) ==
    IF ~w.exists THEN Raise("FileNotFoundError")
    ELSE IF ~w.readable THEN Raise("ValueError")
    ELSE With(structure_output(Some(extract_text(ocr))), LAMBDA r :
         IF r.status = "raised" THEN r ELSE SummaryBySubscript(r.val))

\* the arguments and the surroundings of one run
ImagePaths == {<<"d", "a", "t", "a", "/", "r", "a", "w", "/", "r", "e", "c", "e", "i", "p", "t", "1", ".", "j", "p", "g">>, <<"d", "a", "t", "a", "/", "r", "a", "w", "/", "r", "e", "c", "e", "i", "p", "t", "3", ".", "j", "p", "g">>, <<"i", "n", "/", "a", ".", "b", ".", "j", "p", "e", "g">>}

Methods == {<<"m", "l">>, <<"r", "u", "l", "e", "s">>, <<"a", "u", "t", "o">>}

OutputDirs == {<<"o", "u", "t", "p", "u", "t", "s">>, <<"r", "e", "s", "u", "l", "t", "s", "/">>}

Calls ==
    [image_path : ImagePaths, method : Methods, save_results : BOOLEAN,
     output_dir : OutputDirs]

EntityTexts ==
    [COMPANY |-> <<"A", "C", "M", "E", " ", "S", "D", "N", " ", "B", "H", "D">>, DATE |-> <<"1", "5", "/", "0", "1", "/", "2", "0", "1", "9">>,
     ADDRESS |-> <<"1", " ", "M", "a", "i", "n", " ", "S", "t">>, TOTAL |-> <<"R", "M", " ", "9", ".", "0", "0">>]

EntitySets ==
    {[l \in D |-> EntityTexts[l]] :
        D \in {{}, {"COMPANY", "DATE"}, {"COMPANY", "DATE", "ADDRESS", "TOTAL"}}}

World(exists, readable, loaded, entities, writable) ==
    [exists |-> exists, readable |-> readable, loaded |-> loaded,
     entities |-> entities, words |-> <<<<"A", "C", "M", "E">>, <<"9", ".", "0", "0">>>>, writable |-> writable]

Worlds ==
    {World(FALSE, FALSE, TRUE, EntityTexts, TRUE),
     World(TRUE, FALSE, TRUE, EntityTexts, TRUE)}
    \cup {World(TRUE, TRUE, l, e, w) : l \in BOOLEAN, e \in EntitySets, w \in BOOLEAN}

MaxOcrLines == 1

OcrLines ==
    {<<"A", "C", "M", "E", " ", "S", "D", "N", " ", "B", "H", "D">>, <<"I", "n", "v", "o", "i", "c", "e", " ", "N", "o", ":", " ", "A", "B", "-", "1", "2">>, <<"1", "5", "/", "0", "1", "/", "2", "0", "1", "9">>, <<"T", "O", "T", "A", "L", ":", " ", "9", ".", "0", "0">>}

OcrInputs == {Some(<<" ">> \o Join(ls) \o <<"\n">>) : ls \in SeqsUpTo(OcrLines, MaxOcrLines)}

InitPipeline ==
    /\ text \in OcrInputs
    /\ pc = "start"
    /\ out = NoOut
    /\ call \in Calls
    /\ world \in Worlds
    /\ files = {}
    /\ printed = << >>

CallProcessInvoice ==
    /\ pc = "start"
    /\ pc' = "process_invoice"
    /\ With(process_invoice(call.image_path, call.method, call.save_results,
                            call.output_dir, world, text[1], files),
            LAMBDA r : out' = r.out /\ files' = r.files)
    /\ UNCHANGED <<text, call, world, printed>>

\* the command line: argparse admits the methods 'ml' and 'rules' only
CallMain ==
    /\ pc = "start"
    /\ call.method \in {<<"m", "l">>, <<"r", "u", "l", "e", "s">>}
    /\ pc' = "main"
    /\ With(main(call, world, text[1], files),
            LAMBDA r : out' = r.out /\ files' = r.files /\ printed' = r.printed)
    /\ UNCHANGED <<text, call, world>>

\* the arguments tests/test_pipeline.py passes
TestPipelineArgs ==
    [image_path |-> <<"d", "a", "t", "a", "/", "r", "a", "w", "/", "r", "e", "c", "e", "i", "p", "t", "1", ".", "j", "p", "g">>, method |-> <<"m", "l">>,
     save_results |-> TRUE, output_dir |-> <<"o", "u", "t", "p", "u", "t", "s">>]

RunTestPipeline ==
    /\ pc = "start"
    /\ call = TestPipelineArgs
    /\ pc' = "test_pipeline"
    /\ With(test_pipeline(call, world, text[1], files),
            LAMBDA r : out' = r.out /\ files' = r.files /\ printed' = r.printed)
    /\ UNCHANGED <<text, call, world>>

\* tests/test_full_pipeline.py reads data/raw/receipt3.jpg
RunTestFullPipeline ==
    /\ pc = "start"
    /\ call.image_path = <<"d", "a", "t", "a", "/", "r", "a", "w", "/", "r", "e", "c", "e", "i", "p", "t", "3", ".", "j", "p", "g">>
    /\ pc' = "test_full_pipeline"
    /\ out' = test_full_pipeline(world, text[1])
    /\ UNCHANGED <<text, call, world, files, printed>>

NextPipeline ==
    CallProcessInvoice \/ CallMain \/ RunTestPipeline \/ RunTestFullPipeline

SpecPipeline == InitPipeline /\ [][NextPipeline]_vars

---------------------------------------------------------------------------
(* process_batch: every image file of a folder through process_invoice.    *)
(* `world.listing` is the folder as the file system lists it: the name of  *)
(* each entry, whether it can be decoded and what the network predicts     *)
(* for it.                                                                 *)

\* the suffixes of supported_extensions ('*.jpg', '*.png', '*.jpeg')
supported_extensions == <<<<".", "j", "p", "g">>, <<".", "p", "n", "g">>, <<".", "j", "p", "e", "g">>>>

\* fnmatch of a name against '*' followed by ext
MatchesExt(name, ext) ==
    Len(name) >= Len(ext) /\ Slice(name, Len(name) - Len(ext) + 1, Len(name) + 1) = ext

\* Path(image_folder).glob('*' + ext): the matching entries in listing order
Glob(listing, ext) == SelectSeq(listing, LAMBDA e : MatchesExt(e.name, ext))

\* the files of the two nested loops, in the order they are taken
img_files(listing) ==
    Glob(listing, supported_extensions[1]) \o Glob(listing, supported_extensions[2])
    \o Glob(listing, supported_extensions[3])

\* what process_invoice finds for one entry of the listing
FileWorld(w, e) ==
    [exists |-> TRUE, readable |-> e.readable, loaded |-> w.loaded,
     entities |-> e.entities, words |-> <<e.name>>, writable |-> w.writable]

\* the loop left at the first file that fails
RECURSIVE BatchFrom_StopAtError(_, _, _, _, _)
BatchFrom_StopAtError(todo, k, args, w, fs) ==
    IF k > Len(todo) THEN [results |-> << >>, files |-> fs, errors |-> << >>]
    ELSE With(process_invoice(PathJoin(args.image_folder, todo[k].name), <<"m", "l">>, TRUE,
                              args.output_dir, FileWorld(w, todo[k]), << >>, fs),
         LAMBDA r :
         IF r.out.status = "raised"
         THEN [results |-> << >>, files |-> r.files,
               errors |-> << PathJoin(args.image_folder, todo[k].name) >>]
         ELSE With(BatchFrom_StopAtError(todo, k + 1, args, w, r.files), LAMBDA rest :
              [results |-> << r.out.val >> \o rest.results,
               files   |-> rest.files,
               errors  |-> rest.errors]))

\* the loop body from the k-th file on: the records appended, the files
\* written and the paths reported as errors
RECURSIVE BatchFrom(_, _, _, _, _)
BatchFrom(todo, k, args, w, fs) ==
    IF k > Len(todo) THEN [results |-> << >>, files |-> fs, errors |-> << >>]
    ELSE With(process_invoice(PathJoin(args.image_folder, todo[k].name), <<"m", "l">>, TRUE,
                              args.output_dir, FileWorld(w, todo[k]), << >>, fs),
         LAMBDA r :
         With(BatchFrom(todo, k + 1, args, w, r.files), LAMBDA rest :
              [results |-> (IF r.out.status = "returned" THEN << r.out.val >> ELSE << >>)
                           \o rest.results,
               files   |-> rest.files,
               errors  |-> (IF r.out.status = "raised"
                            THEN << PathJoin(args.image_folder, todo[k].name) >>
                            ELSE << >>) \o rest.errors]))

\* process_batch: the list returned, the files and the paths printed
process_batch(args, w, fs) ==
    With(img_files(w.listing), LAMBDA todo :
    With(BatchFrom(todo, 1, args, w, fs), LAMBDA b :
         [out     |-> Ret(b.results),
          files   |-> b.files,
          printed |-> [processing |-> [k \in 1..Len(todo) |->
                                          PathJoin(args.image_folder, todo[k].name)],
                       errors     |-> b.errors]]))

MaxBatchFiles == 3

BatchNames == {<<"a", ".", "j", "p", "g">>, <<"b", ".", "p", "n", "g">>, <<"c", ".", "j", "p", "e", "g">>, <<"d", ".", "t", "x", "t">>}

BatchEntities ==
    {[l \in D |-> EntityTexts[l]] : D \in {{"COMPANY"}, {"COMPANY", "DATE", "TOTAL"}}}

BatchEntries == [name : BatchNames, readable : BOOLEAN, entities : BatchEntities]

\* folders: no name twice
Listings ==
    {ls \in SeqsUpTo(BatchEntries, MaxBatchFiles) :
        \A i, j \in 1..Len(ls) : i # j => ls[i].name # ls[j].name}

BatchWorlds ==
    {[listing |-> ls, loaded |-> e[1], writable |-> e[2]] :
        ls \in Listings, e \in {<<TRUE, TRUE>>, <<FALSE, TRUE>>, <<TRUE, FALSE>>}}

InitBatch ==
    /\ text = None
    /\ pc = "start"
    /\ out = NoOut
    /\ call = [image_folder |-> <<"i", "n">>, output_dir |-> <<"o", "u", "t", "p", "u", "t", "s">>]
    /\ world \in BatchWorlds
    /\ files = {}
    /\ printed = << >>

CallProcessBatch ==
    /\ pc = "start"
    /\ pc' = "process_batch"
    /\ With(process_batch(call, world, files),
            LAMBDA r : out' = r.out /\ files' = r.files /\ printed' = r.printed)
    /\ UNCHANGED <<text, call, world>>

NextBatch == CallProcessBatch

SpecBatch == InitBatch /\ [][NextBatch]_vars

---------------------------------------------------------------------------
---------------------------------------------------------------------------
(* Preprocessing (src/src/preprocessing.py): an image is its number of     *)
(* dimensions and the OpenCV operations applied to it so far; an           *)
(* Optional image is None or Some(image).                                  *)

Applied(image, op, args) ==
    [ndim |-> image.ndim, ops |-> Append(image.ops, [op |-> op, args |-> args])]

\* cv2.cvtColor(image, cv2.COLOR_RGB2GRAY): one channel is left
cvtColor(image) == [Applied(image, "cvtColor", << >>) EXCEPT !.ndim = 2]

\* cv2.GaussianBlur(image, (k, k), 0)
GaussianBlur(image, k) == Applied(image, "GaussianBlur", <<k, k, 0>>)

\* cv2.threshold(image, 127, 255, cv2.THRESH_BINARY)
threshold(image) == Applied(image, "threshold", <<127, 255>>)

\* cv2.adaptiveThreshold: OpenCV asserts blockSize % 2 == 1 && blockSize > 1
adaptiveThreshold(image, block_size, C) ==
    IF block_size > 1 /\ block_size % 2 = 1
    THEN Ret(Some(Applied(image, "adaptiveThreshold", <<255, block_size, C>>)))
    ELSE Raise("cv2.error")

convert_to_grayscale(image) ==
    IF image = None
    THEN Raise("ValueError: Image is None, cannot convert to grayscale")
    ELSE IF image[1].ndim = 2 THEN Ret(image)
    ELSE Ret(Some(cvtColor(image[1])))

remove_noise(image, kernel_size) ==
    IF image = None THEN Raise("ValueError: Image is None, cannot remove noise")
    ELSE IF kernel_size <= 0 THEN Raise("ValueError: Kernel size must be positive")
    ELSE IF kernel_size % 2 = 0 THEN Raise("ValueError: Kernel size must be odd")
    ELSE Ret(Some(GaussianBlur(image[1], kernel_size)))

binarize(image, method, block_size, C) ==
    IF image = None THEN Raise("ValueError: Image is None, cannot binarize")
    ELSE IF image[1].ndim # 2
    THEN Raise("ValueError: Input image must be grayscale for binarization")
    ELSE IF method = "simple" THEN Ret(Some(threshold(image[1])))
    ELSE IF method = "adaptive" THEN adaptiveThreshold(image[1], block_size, C)
    ELSE Raise("ValueError: Unknown binarization method")

\* one pass of the loop body of preprocess_pipeline
PipelineStep(step, processed, args) ==
    IF step = "grayscale" THEN convert_to_grayscale(processed)
    ELSE IF step = "denoise" THEN remove_noise(processed, args.denoise_kernel)
    ELSE IF step = "binarize"
    THEN binarize(processed, args.binarize_method, args.binarize_block_size,
                  args.binarize_C)
    ELSE Raise("ValueError: Unknown preprocessing step")

RECURSIVE StepsFrom(_, _, _)
\* the loop of preprocess_pipeline from the k-th step on
StepsFrom(k, processed, args) ==
    IF k > Len(args.steps) THEN Ret(processed)
    ELSE With(PipelineStep(args.steps[k], processed, args), LAMBDA r :
             IF r.status = "raised" THEN r
             ELSE StepsFrom(k + 1, r.val, args))

preprocess_pipeline(image, args) ==
    IF image = None THEN Raise("ValueError: Input image is None")
    ELSE StepsFrom(1, image, args)

MaxSteps == 3

StepNames == {"grayscale", "denoise", "binarize", "deskew"}

RGB == [ndim |-> 3, ops |-> << >>]

Gray == [ndim |-> 2, ops |-> << >>]

Images == {None, Some(RGB), Some(Gray)}

PipelineArgs ==
    [steps : SeqsUpTo(StepNames, MaxSteps), denoise_kernel : {3, 4, 0},
     binarize_method : {"adaptive", "simple", "otsu"},
     binarize_block_size : {11, 4}, binarize_C : {2}]

InitPreprocess ==
    /\ text = None /\ pc = "start" /\ out = NoOut
    /\ call \in PipelineArgs /\ world \in Images
    /\ files = {} /\ printed = << >>

CallPreprocessPipeline ==
    /\ pc = "start"
    /\ pc' = "preprocess_pipeline"
    /\ out' = preprocess_pipeline(world, call)
    /\ UNCHANGED <<text, call, world, files, printed>>

NextPreprocess == CallPreprocessPipeline

SpecPreprocess == InitPreprocess /\ [][NextPreprocess]_vars

(* Properties of structure_output.                                         *)

Returned == pc = "structure_output" /\ out.status = "returned"

RecordFields ==
    {"receipt_number", "date", "bill_to", "items", "total_amount", "raw_text",
     "extraction_confidence", "validation_passed"}

\* how many of the five counted fields a record has
PresentCount(r) ==
    Cardinality({f \in {"receipt_number", "date", "bill_to", "total_amount"} : Len(r[f]) = 1})
    + (IF Len(r.items) > 0 THEN 1 ELSE 0)

\* C1: extraction_confidence is the integer 100 * k / 5, k being the number of
\* present fields among receipt_number, date, bill_to, total_amount plus one
\* for a non-empty items list; it is one of 0, 20, 40, 60, 80, 100.
C1_Confidence ==
    Returned =>
        /\ out.val.extraction_confidence = (100 * PresentCount(out.val)) \div 5
        /\ out.val.extraction_confidence \in {0, 20, 40, 60, 80, 100}

C1_Witness == Returned /\ PresentCount(out.val) = 3 /\ out.val.extraction_confidence = 60

\* the exact sum of the item totals, without rounding
RECURSIVE ExactSum(_, _)
ExactSum(items, k) ==
    IF k = 0 THEN {} ELSE BigAdd(ExactSum(items, k - 1), items[k].total)

\* |a - b| < 1/100, exactly: 100 * |a - b| < 1
ExactlyWithinCent(a, b) ==
    LET d == IF BigLess(a, b) THEN BigSub(b, a) ELSE BigSub(a, b)
    IN  BigLess(SumShifts(d, BitsOfInt(100)), {FracBits})

\* C2: validation_passed is true iff total_amount is present and differs from
\* the sum of the items' totals by less than 0.01; without items the sum is 0
\* and validation passes only for a total within 0.01 of 0.
C2_Validation ==
    Returned =>
        /\ out.val.validation_passed
               <=> /\ out.val.total_amount # None
                   /\ ExactlyWithinCent(out.val.total_amount[1],
                                        ExactSum(out.val.items, Len(out.val.items)))
        /\ (out.val.items = << >> /\ out.val.validation_passed)
               => ExactlyWithinCent(out.val.total_amount[1], {})

C2_Witness ==
    /\ Returned
    /\ out.val.items = << >>
    /\ out.val.total_amount # None
    /\ out.val.validation_passed

C2_WitnessItems == Returned /\ Len(out.val.items) = 2 /\ out.val.validation_passed

Cents(n) == FloatOfRatio(n, 100)

\* C3: with items whose totals are 10.00 and 25.50, a total_amount of 35.50
\* passes validation and a total_amount of 35.51 fails it.
C3_Boundary ==
    (/\ Returned
     /\ Len(out.val.items) = 2
     /\ out.val.items[1].total = Cents(1000)
     /\ out.val.items[2].total = Cents(2550))
    => /\ out.val.total_amount = Some(Cents(3550)) => out.val.validation_passed
       /\ out.val.total_amount = Some(Cents(3551)) => ~out.val.validation_passed

Blank(r) ==
    /\ r.receipt_number = None
    /\ r.date = None
    /\ r.bill_to = None
    /\ r.total_amount = None
    /\ r.items = << >>
    /\ r.extraction_confidence = 0
    /\ ~r.validation_passed

\* C4: the empty text and the None text both give, without an error, a record
\* with every optional field absent, no items, confidence 0 and validation
\* failed.
C4_EmptyOrNone ==
    (pc = "structure_output" /\ Falsy(text)) => (out.status = "returned" /\ Blank(out.val))

\* C5: on every string structure_output returns a complete record and raises
\* nothing; what cannot be extracted is absent.
C5_NeverRaises ==
    (pc = "structure_output" /\ text # None) =>
        /\ out.status = "returned"
        /\ DOMAIN out.val = RecordFields
        /\ \A f \in {"receipt_number", "date", "bill_to", "total_amount"} :
              Len(out.val[f]) <= 1
        /\ out.val.raw_text = text[1]

C5_Witness ==
    /\ Returned
    /\ Len(text[1]) > 0
    /\ Blank(out.val)

---------------------------------------------------------------------------
(* Properties of the extractors.                                           *)

\* k occurs in s, whatever the case of the letters
ContainsAnyCase(s, k) ==
    \E i \in 1..(Len(s) - Len(k) + 1) :
        \A j \in 1..Len(k) : LowerChar(s[i + j - 1]) = LowerChar(k[j])

C6_StartKeywords ==
    {<<"d", "e", "s", "c", "r", "i", "p", "t", "i", "o", "n">>,
     <<"i", "t", "e", "m">>,
     <<"q", "t", "y">>, <<"p", "r", "i", "c", "e">>,
     <<"a", "m", "o", "u", "n", "t">>}

C6_Example == <<"W", "i", "d", "g", "e", "t", " ", "A", "\n", "2", " ", "x", " ", "5", ".", "0", "0", " ", "1", "0", ".", "0", "0">>

\* C6: when no line of the text contains a start keyword, extract_line_items
\* returns the empty list, whatever description and number lines the text has.
C6_NoStartNoItems ==
    (/\ pc = "extract_line_items"
     /\ \A k \in C6_StartKeywords : ~ContainsAnyCase(text[1], k))
    => out = Ret(<< >>)

C6_Witness ==
    /\ pc = "extract_line_items"
    /\ text = Some(C6_Example)
    /\ out = Ret(<< >>)

IsDigitAt(s, i) == i <= Len(s) /\ s[i] \in Digits

IsSepAt(s, i) == i <= Len(s) /\ s[i] \in {"/", "-"}

\* the date shapes: 1 is DD/DD/DDDD, 2 is DD/DD/DD with no digit after it,
\* 3 is DDDD/DD/DD
ShapeAt(shape, s, i) ==
    CASE shape = 1 ->
            /\ \A d \in {0, 1, 3, 4, 6, 7, 8, 9} : IsDigitAt(s, i + d)
            /\ IsSepAt(s, i + 2) /\ IsSepAt(s, i + 5)
      [] shape = 2 ->
            /\ \A d \in {0, 1, 3, 4, 6, 7} : IsDigitAt(s, i + d)
            /\ IsSepAt(s, i + 2) /\ IsSepAt(s, i + 5)
            /\ ~IsDigitAt(s, i + 8)
      [] shape = 3 ->
            /\ \A d \in {0, 1, 2, 3, 5, 6, 8, 9} : IsDigitAt(s, i + d)
            /\ IsSepAt(s, i + 4) /\ IsSepAt(s, i + 7)

ShapeLen(shape) == IF shape = 2 THEN 8 ELSE 10

\* the occurrences of a shape from position i on, left to right, each
\* starting after the end of the one before
RECURSIVE ShapeMatches(_, _, _)
ShapeMatches(shape, s, i) ==
    LET at == {k \in i..Len(s) : ShapeAt(shape, s, k)}
    IN  IF at = {} THEN << >>
        ELSE << Slice(s, MinOf(at), MinOf(at) + ShapeLen(shape)) >>
             \o ShapeMatches(shape, s, MinOf(at) + ShapeLen(shape))

AllMatches(s) == ShapeMatches(1, s, 1) \o ShapeMatches(2, s, 1) \o ShapeMatches(3, s, 1)

FirstIndex(xs, x) == MinOf({i \in 1..Len(xs) : xs[i] = x})

\* ys is xs with every repeated string removed, first occurrences kept in order
IsDedupOf(ys, xs) ==
    /\ {ys[i] : i \in 1..Len(ys)} = {xs[i] : i \in 1..Len(xs)}
    /\ \A i, j \in 1..Len(ys) : i < j => FirstIndex(xs, ys[i]) < FirstIndex(xs, ys[j])

C7_Example == <<"D", "a", "t", "e", ":", " ", "1", "5", "/", "0", "1", "/", "2", "0", "1", "9">>

C7_ExampleDate == <<"1", "5", "/", "0", "1", "/", "2", "0", "1", "9">>

\* C7: extract_dates returns the pattern-1 matches, then the pattern-2 matches,
\* then the pattern-3 matches, with repeated strings removed and first
\* occurrences kept; the record's date is the first of them, or absent.
C7_DateOrder ==
    /\ pc = "extract_dates" => IsDedupOf(out.val, AllMatches(text[1]))
    /\ (pc = "structure_output" /\ out.status = "returned") =>
          out.val.date = IF AllMatches(text[1]) = << >> THEN None
                         ELSE Some(AllMatches(text[1])[1])

C7_Witness ==
    /\ pc = "structure_output"
    /\ text = Some(C7_Example)
    /\ out.status = "returned"
    /\ out.val.date = Some(C7_ExampleDate)

C7_WitnessDedup ==
    /\ pc = "extract_dates"
    /\ Len(out.val) = 2
    /\ Len(AllMatches(text[1])) = 3

\* group 1 of the total pattern when exactly two fraction digits are asked for
total_group_exact ==
    Cat(<<Run(Digits, 1, Unbounded), Cls({".", ","}), D2, NotAhead(Cls(Digits))>>)

ExactTotal(s) ==
    LET match == SearchGroup(total_prefix, total_group_exact, Empty, s)
    IN  IF match = << >> THEN None
        ELSE Some(ParseFloat(ReplaceChar(match[1], ",", "."))[1])

\* C8: extract_total returns the number with exactly two fraction digits that
\* follows the first TOTAL, GRAND TOTAL, AMOUNT DUE or BALANCE, and absent
\* when there is none; a number with more digits after the separator is not
\* cut to its first two.
C8_ExactTotal ==
    pc = "extract_total" => out = Ret(ExactTotal(text[1]))

\* the cleaned form of a token is a number: digits with at most one point
WellFormed(tok) ==
    LET c == SelectSeq(tok, LAMBDA x : x \in Digits \cup {".", ","})
    IN  /\ Cardinality({i \in 1..Len(c) : c[i] \in {".", ","}}) <= 1
        /\ \E i \in 1..Len(c) : c[i] \in Digits

ValueOf(tok) ==
    ParseFloat(ReplaceChar(SelectSeq(tok, LAMBDA x : x \in Digits \cup {".", ","}),
                           ",", "."))[1]

\* C9: extract_amounts raises nothing and returns, in order, the values of the
\* matched tokens whose cleaned form is a number; a malformed token adds
\* nothing and the tokens after it are still scanned.
C9_AmountsSkipMalformed ==
    pc = "extract_amounts" =>
        LET good == SelectSeq(FindAll(amount_pattern, text[1]), WellFormed)
        IN  /\ out.status = "returned"
            /\ Len(out.val) = Len(good)
            /\ \A k \in 1..Len(good) : out.val[k] = ValueOf(good[k])

C9_Witness ==
    /\ pc = "extract_amounts"
    /\ LET toks == FindAll(amount_pattern, text[1])
       IN  /\ Len(toks) = 2
           /\ ~WellFormed(toks[1])
           /\ WellFormed(toks[2])
           /\ out.status = "returned"
           /\ out.val = << ValueOf(toks[2]) >>

C10_Suffixes ==
    {<<"S", "D", "N", " ", "B", "H", "D">>, <<"I", "N", "C">>, <<"L", "T", "D">>,
     <<"L", "L", "C">>, <<"P", "L", "C">>, <<"C", "O", "R", "P">>,
     <<"P", "T", "Y">>, <<"P", "V", "T">>}

\* a line that is at least 3 characters and not made of '*-=_#' and spaces
C10_Substantial(l) ==
    Len(l) >= 3 /\ \E i \in 1..Len(l) : l[i] \notin {"*", "-", "=", "_", "#", " "}

C10_Company(l) ==
    C10_Substantial(l) /\ \E x \in C10_Suffixes : ContainsAnyCase(l, x)

C10_Example == <<"t", "a", "n", " ", "c", "h", "a", "y", " ", "y", "e", "e", "\n", "O", "J", "C", " ", "M", "A", "R", "K", "E", "T", "I", "N", "G", " ", "S", "D", "N", " ", "B", "H", "D", ".">>

C10_ExampleVendor == <<"O", "J", "C", " ", "M", "A", "R", "K", "E", "T", "I", "N", "G", " ", "S", "D", "N", " ", "B", "H", "D", ".">>

\* C10: extract_vendor returns the first line (trimmed) that is substantial
\* and has a company suffix, wherever it is in the text; only when no line
\* has one, the first substantial line among the first 10 lines; else absent.
\* Lines are those of the text without its leading and trailing whitespace.
C10_SuffixFirst ==
    pc = "extract_vendor" =>
        LET ls == SplitLines(Strip(text[1]))
            l(i) == Strip(ls[i])
        IN  IF \E i \in 1..Len(ls) : C10_Company(l(i))
            THEN \E i \in 1..Len(ls) :
                    /\ C10_Company(l(i))
                    /\ \A j \in 1..(i - 1) : ~C10_Company(l(j))
                    /\ out.val = Some(l(i))
            ELSE IF \E i \in 1..Len(ls) : i <= 10 /\ C10_Substantial(l(i))
            THEN \E i \in 1..Len(ls) :
                    /\ i <= 10 /\ C10_Substantial(l(i))
                    /\ \A j \in 1..(i - 1) : ~C10_Substantial(l(j))
                    /\ out.val = Some(l(i))
            ELSE out.val = None

\* C10 as stated, the lines being those of the text as given: the fallback
\* looks at the first 10 lines of the text and at no later one.
C10_FirstTenOfText ==
    pc = "extract_vendor" =>
        LET ls == SplitLines(text[1])
            l(i) == Strip(ls[i])
        IN  IF \E i \in 1..Len(ls) : C10_Company(l(i))
            THEN \E i \in 1..Len(ls) :
                    /\ C10_Company(l(i))
                    /\ \A j \in 1..(i - 1) : ~C10_Company(l(j))
                    /\ out.val = Some(l(i))
            ELSE IF \E i \in 1..Len(ls) : i <= 10 /\ C10_Substantial(l(i))
            THEN \E i \in 1..Len(ls) :
                    /\ i <= 10 /\ C10_Substantial(l(i))
                    /\ \A j \in 1..(i - 1) : ~C10_Substantial(l(j))
                    /\ out.val = Some(l(i))
            ELSE out.val = None

C10_Witness ==
    /\ pc = "extract_vendor"
    /\ text = Some(C10_Example)
    /\ out.val = Some(C10_ExampleVendor)

\* a substantial line after the tenth, and nothing returned
C10_WitnessBeyond ==
    /\ pc = "extract_vendor"
    /\ out.val = None
    /\ \E i \in 1..Len(SplitLines(text[1])) : C10_Substantial(SplitLines(text[1])[i])

---------------------------------------------------------------------------
(* Properties of extract_invoice_number.                                   *)

C11_Keywords == {<<"n", "v", "o", "i", "c", "e">>, <<"r", "e", "c", "e", "i", "p", "t">>, <<"b", "i", "l", "l">>, <<"n", "o">>}

C11_TokenChars == Letters \cup Digits \cup {"-"}

\* a token starts at p: two letters, and five characters of the token class
C11_TokenAt(l, p) ==
    /\ p + 4 <= Len(l)
    /\ l[p] \in Letters /\ l[p + 1] \in Letters
    /\ \A k \in p..(p + 4) : l[k] \in C11_TokenChars

\* the position after the token that starts at p: where its characters end
C11_TokenEnd(l, p) ==
    MinOf({k \in p..(Len(l) + 1) : k = Len(l) + 1 \/ l[k] \notin C11_TokenChars})

\* the tokens of l from position i on, left to right, none overlapping
RECURSIVE C11_Tokens(_, _)
C11_Tokens(l, i) ==
    With({p \in i..Len(l) : C11_TokenAt(l, p)}, LAMBDA at :
        IF at = {} THEN << >>
        ELSE << Slice(l, MinOf(at), C11_TokenEnd(l, MinOf(at))) >>
             \o C11_Tokens(l, C11_TokenEnd(l, MinOf(at))))

C11_Good(tok) ==
    /\ Len(tok) >= 5
    /\ \E k \in 1..Len(tok) : tok[k] \in Digits
    /\ \E k \in 1..Len(tok) : tok[k] \in Letters

\* the lines, among the first 15, that have a keyword and a good token
C11_Candidates(ls) ==
    {i \in 1..Len(ls) :
        /\ i <= 15
        /\ \E k \in C11_Keywords : ContainsAnyCase(ls[i], k)
        /\ SelectSeq(C11_Tokens(ls[i], 1), C11_Good) # << >>}

C11_Example == <<"I", "n", "v", "o", "i", "c", "e", " ", "N", "o", ":", " ", "P", "E", "G", "I", "V", "-", "1", "0", "3", "0", "7", "6", "5">>

C11_ExampleNumber == <<"P", "E", "G", "I", "V", "-", "1", "0", "3", "0", "7", "6", "5">>

\* C11: a value returned by extract_invoice_number is the uppercased first
\* token with at least 5 characters, a digit and a letter, of the earliest
\* keyword line among the first 15 lines that has such a token; a keyword
\* line after the 15th contributes nothing.
C11_InvoiceNumber ==
    (pc = "extract_invoice_number" /\ out.val # None) =>
        With(SplitLines(text[1]), LAMBDA ls :
            /\ C11_Candidates(ls) # {}
            /\ out.val = Some(StrUpper(SelectSeq(C11_Tokens(ls[MinOf(C11_Candidates(ls))], 1),
                                                 C11_Good)[1])))

C11_Witness ==
    /\ pc = "extract_invoice_number"
    /\ text = Some(C11_Example)
    /\ out.val = Some(C11_ExampleNumber)

\* a keyword line with a good token after the 15th line, and nothing returned
C11_WitnessLate ==
    /\ pc = "extract_invoice_number"
    /\ out.val = None
    /\ \E i \in 16..Len(SplitLines(text[1])) :
          /\ \E k \in C11_Keywords : ContainsAnyCase(SplitLines(text[1])[i], k)
          /\ SelectSeq(C11_Tokens(SplitLines(text[1])[i], 1), C11_Good) # << >>

\* the second token of a line returned, the first one having no digit
C11_WitnessSecond ==
    /\ pc = "extract_invoice_number"
    /\ out.val # None
    /\ Len(SplitLines(text[1])) = 1
    /\ Len(C11_Tokens(text[1], 1)) >= 2
    /\ ~C11_Good(C11_Tokens(text[1], 1)[1])

---------------------------------------------------------------------------
(* Properties of the records.                                              *)

C13_OnlyEmail == <<"B", "i", "l", "l", "e", "d", " ", "t", "o", " ", "-", " ", "a", "@", "b", ".", "c", "o">>

\* C13: in a record of structure_output an optional field is absent or not
\* empty: receipt_number, date, bill_to.name and bill_to.email are never the
\* empty string, so bill_to is never a record with an empty name.
C13_NoEmptyPlaceholder ==
    Returned =>
        /\ out.val.receipt_number # Some(<< >>)
        /\ out.val.date # Some(<< >>)
        /\ out.val.bill_to # None =>
              /\ out.val.bill_to[1].name # << >>
              /\ out.val.bill_to[1].email # Some(<< >>)

\* a heading followed by an email address and no name: bill_to is absent
C13_Witness ==
    /\ Returned
    /\ text = Some(C13_OnlyEmail)
    /\ out.val.bill_to = None

\* a record with all of the four fields present
C13_WitnessPresent ==
    /\ Returned
    /\ out.val.receipt_number # None
    /\ out.val.date # None
    /\ out.val.bill_to # None
    /\ out.val.bill_to[1].email # None

C14_ItemKeys == {"description", "quantity", "unit_price", "total"}

\* C14: a record of structure_output has exactly the eight fields, raw_text
\* is the input text unchanged, and every item has exactly the keys
\* description, quantity, unit_price and total.
C14_RecordShape ==
    Returned =>
        /\ DOMAIN out.val = RecordFields
        /\ out.val.raw_text = text[1]
        /\ \A k \in 1..Len(out.val.items) : DOMAIN out.val.items[k] = C14_ItemKeys

\* a record with two items whose validation fails
C14_Witness ==
    /\ Returned
    /\ Len(out.val.items) = 2
    /\ ~out.val.validation_passed
    /\ out.val.raw_text = text[1]


---------------------------------------------------------------------------
(* Properties of the pipeline.                                             *)

\* the text the rule-based branch structures
OcrText == Some(extract_text(text[1]))

\* the vendor, invoice number, date and total extracted from the OCR text
C15_Extracted ==
    [vendor         |-> extract_vendor(OcrText),
     invoice_number |-> extract_invoice_number(OcrText),
     date           |-> IF extract_dates(OcrText) # << >>
                        THEN Some(extract_dates(OcrText)[1]) ELSE None,
     total          |-> extract_total(OcrText).val]

C15_SummaryKeys == {"vendor", "invoice_number", "date", "total"}

\* C15: the record of the rule-based path has the keys 'vendor',
\* 'invoice_number', 'date' and 'total', so the full-pipeline test (which
\* subscripts them) and the command-line summary (which reads them with
\* defaults) show the extracted vendor, invoice number, date and total.
C15_SummaryFields ==
    /\ (pc = "process_invoice" /\ call.method = <<"r", "u", "l", "e", "s">> /\ out.status = "returned") =>
           /\ C15_SummaryKeys \subseteq DOMAIN out.val
           /\ [k \in C15_SummaryKeys |-> out.val[k]] = C15_Extracted
    /\ (pc = "test_full_pipeline" /\ world.exists /\ world.readable) =>
           /\ out.status = "returned"
           /\ out.val = C15_Extracted
    /\ (pc = "main" /\ call.method = <<"r", "u", "l", "e", "s">> /\ out.val = 0) =>
           printed.summary = Some(C15_Extracted)

\* C16: after process_invoice with save_results returns, the record is in
\* the file <output_dir>/<stem of the image>.json, and the path the
\* command line or the pipeline test reports as saved names a written file.
C16_SavedPath ==
    /\ (pc = "process_invoice" /\ call.save_results /\ out.status = "returned") =>
           files = {[path |-> PathJoin(call.output_dir,
                                       PathStem(call.image_path) \o <<".", "j", "s", "o", "n">>),
                     data |-> out.val]}
    /\ (pc \in {"main", "test_pipeline"} /\ printed.saved # None) =>
           \E f \in files : f.path = PathStr(printed.saved[1])

---------------------------------------------------------------------------
(* Properties of extract_line_items.                                       *)

C17_EndKeywords == {<<"t", "o", "t", "a", "l">>, <<"s", "u", "b", "t", "o", "t", "a", "l">>, <<"t", "a", "x">>, <<"g", "s", "t">>}

C17_Starts(ls) == {i \in 1..Len(ls) : \E k \in C6_StartKeywords : ContainsAnyCase(ls[i], k)}

C17_Ends(ls) == {i \in 1..Len(ls) : \E k \in C17_EndKeywords : ContainsAnyCase(ls[i], k)}

\* the lines strictly after the first line with a start keyword and strictly
\* before the first line below it that has an end keyword
C17_RegionOf(ls) ==
    With(MinOf(C17_Starts(ls)), LAMBDA header :
    With({i \in C17_Ends(ls) : i > header}, LAMBDA closing :
         SubSeq(ls, header + 1, IF closing = {} THEN Len(ls) ELSE MinOf(closing) - 1)))

C17_Example == <<"Q", "t", "y", " ", "P", "r", "i", "c", "e", " ", "T", "o", "t", "a", "l", "\n", "G", "a", "d", "g", "e", "t", " ", "2", "5", ".", "5", "0", "\n", "T", "a", "x", " ", "1", ".", "0", "0">>

\* C17: the items returned are those of the lines strictly after the first
\* line with a start keyword and strictly before the first later line with
\* an end keyword (or the end of the text); an end keyword on the header
\* line or above it closes nothing.
C17_Region ==
    (pc = "extract_line_items" /\ C17_Starts(SplitLines(text[1])) # {}) =>
        out = Ret(ItemsFrom(C17_RegionOf(SplitLines(text[1])), 1, << >>))

\* the same statement for texts whose first start-keyword line has no end
\* keyword on it
C17_RegionPlainHeader ==
    (/\ pc = "extract_line_items"
     /\ C17_Starts(SplitLines(text[1])) # {}
     /\ MinOf(C17_Starts(SplitLines(text[1]))) \notin C17_Ends(SplitLines(text[1]))) =>
        out = Ret(ItemsFrom(C17_RegionOf(SplitLines(text[1])), 1, << >>))

C17_HeaderWithTotal ==
    /\ pc = "extract_line_items"
    /\ text = Some(C17_Example)
    /\ out = Ret(<< >>)
    /\ Len(ItemsFrom(C17_RegionOf(SplitLines(text[1])), 1, << >>)) = 1

\* the lines extract_line_items scans: lines[start_index:end_index]
item_lines ==
    With(SplitLines(text[1]), LAMBDA lines :
    With(Section(lines, 0, NoStart), LAMBDA sec :
         IF sec[1] = NoStart THEN << >> ELSE SubSeq(lines, sec[1] + 1, sec[2])))

\* the numeric tokens of a line and its description fragment
C18_Tokens(line) == FindAll(number_pattern, KeepChars(NumberChars, line))

C18_Fragment(line) == Strip(RemoveChars(NumberChars, line))

\* the lines that emit an item: a line with a numeric token such that some
\* line at or above it has a fragment and no line in between has a token
C18_Emitting(ls) ==
    {j \in 1..Len(ls) :
        /\ C18_Tokens(ls[j]) # << >>
        /\ \E i \in 1..j :
              /\ C18_Fragment(ls[i]) # << >>
              /\ \A m \in i..(j - 1) : C18_Tokens(ls[m]) = << >>}

C18_Last(ts) == ParseFloat(ts[Len(ts)])[1]

C18_SecondLast(ts) == ParseFloat(ts[Len(ts) - 1])[1]

\* C18: one item per line that has a numeric token while the description
\* buffer, this line's fragment included, is not empty, in line order; its
\* total is the last token, its unit_price the second-to-last token or, with
\* one token, the total; the buffer is empty after an emission, so a line of
\* numbers alone right after an item emits nothing.
C18_Emission ==
    pc = "extract_line_items" =>
        /\ out.status = "returned"
        /\ Len(out.val) = Cardinality(C18_Emitting(item_lines))
        /\ \A n \in 1..Len(out.val) :
              With(C18_Tokens(item_lines[Nth(C18_Emitting(item_lines), n)]), LAMBDA ts :
                  /\ out.val[n].total = C18_Last(ts)
                  /\ out.val[n].unit_price =
                        (IF Len(ts) >= 2 THEN C18_SecondLast(ts) ELSE C18_Last(ts)))

C18_Example == <<"I", "t", "e", "m", "\n", "G", "a", "d", "g", "e", "t", " ", "2", "5", ".", "5", "0", "\n", "1", "2", ".", "5", "0", "\n", "2", " ", "x", " ", "5", ".", "0", "0", " ", "1", "0", ".", "0", "0">>

\* two items from three lines with numbers: the line of numbers alone that
\* follows the first item finds the buffer empty
C18_Witness ==
    /\ pc = "extract_line_items"
    /\ text = Some(C18_Example)
    /\ Len(out.val) = 2
    /\ out.val[1].total = C18_Last(<<<<"2", "5", ".", "5", "0">>>>)
    /\ out.val[2].unit_price = C18_Last(<<<<"5", ".", "0", "0">>>>)
    /\ out.val[2].total = C18_Last(<<<<"1", "0", ".", "0", "0">>>>)

\* the line that emitted the n-th item, 0 for n = 0
C19_EmittingLine(ls, n) == IF n = 0 THEN 0 ELSE Nth(C18_Emitting(ls), n)

\* the non-empty fragments of the lines after line a up to line b, joined
\* by single spaces
C19_Joined(ls, a, b) ==
    JoinBy(<<" ">>, SelectSeq([k \in 1..(b - a) |-> C18_Fragment(ls[a + k])],
                              LAMBDA f : f # << >>))

\* C19: the description of an item is the space-joined sequence of the
\* non-empty fragments of the lines after the line that emitted the previous
\* item, up to and including the line that emits this one; fragments of
\* lines without numbers are carried to the next line with a number and
\* fragments after the last emitting line are in no item.
C19_Accumulation ==
    pc = "extract_line_items" =>
        /\ Len(out.val) = Cardinality(C18_Emitting(item_lines))
        /\ \A n \in 1..Len(out.val) :
              out.val[n].description =
                  C19_Joined(item_lines, C19_EmittingLine(item_lines, n - 1),
                             C19_EmittingLine(item_lines, n))

C19_Example == <<"I", "t", "e", "m", "\n", "W", "i", "d", "g", "e", "t", " ", "A", "\n", "B", "l", "u", "e", "\n", "2", " ", "x", " ", "5", ".", "0", "0", " ", "1", "0", ".", "0", "0">>

C19_ExampleLeftover == <<"I", "t", "e", "m", "\n", "G", "a", "d", "g", "e", "t", " ", "2", "5", ".", "5", "0", "\n", "W", "i", "d", "g", "e", "t", " ", "A", "\n", "B", "l", "u", "e">>

\* two lines without numbers are carried to the line with the prices
C19_Witness ==
    /\ pc = "extract_line_items"
    /\ text = Some(C19_Example)
    /\ Len(out.val) = 1
    /\ out.val[1].description = <<"W", "i", "d", "g", "e", "t", "A", " ", "B", "l", "u", "e", " ", "x">>

\* the fragments after the last item are dropped
C19_WitnessLeftover ==
    /\ pc = "extract_line_items"
    /\ text = Some(C19_ExampleLeftover)
    /\ Len(out.val) = 1
    /\ out.val[1].description = <<"G", "a", "d", "g", "e", "t">>

---------------------------------------------------------------------------
(* Properties of extract_amounts: the values.                              *)

\* the amount a matched token denotes: its digits, the last two of them
\* being the fraction
C20_Denoted(tok) == FloatOfRatio(NatOfDigits(SelectSeq(tok, LAMBDA c : c \in Digits)), 100)

C20_Grouped == <<"1", ",", "2", "3", "4", ".", "5", "6">>

C20_Marked == <<"R", "s", ".", " ", "1", "2", "3", ".", "4", "5">>

\* C20: every token the amount pattern matches contributes the amount it
\* denotes, in order: the currency marker and the thousands commas do not
\* change the value and only the fraction separator becomes the point.
C20_TokenValues ==
    pc = "extract_amounts" =>
        With(FindAll(amount_pattern, text[1]), LAMBDA toks :
            /\ out.status = "returned"
            /\ Len(out.val) = Len(toks)
            /\ \A k \in 1..Len(toks) : out.val[k] = C20_Denoted(toks[k]))

\* the same statement for the tokens with no thousands comma and no point
\* in the currency marker
C20_PlainTokenValues ==
    pc = "extract_amounts" =>
        With(SelectSeq(FindAll(amount_pattern, text[1]), WellFormed), LAMBDA toks :
            /\ Len(out.val) = Len(toks)
            /\ \A k \in 1..Len(toks) : out.val[k] = C20_Denoted(toks[k]))

\* the two tokens of the claim are matched whole and add nothing
C20_Dropped ==
    /\ pc = "extract_amounts"
    /\ text \in {Some(C20_Grouped), Some(C20_Marked)}
    /\ FindAll(amount_pattern, text[1]) = << text[1] >>
    /\ out = Ret(<< >>)

---------------------------------------------------------------------------
(* Properties of extract_dates: whole dates.                               *)

\* the occurrence of d at position i of s lies strictly inside an
\* occurrence of a date shape
C21_InsideLonger(d, s, i) ==
    \E shape \in 1..3 : \E j \in 1..Len(s) :
        /\ ShapeAt(shape, s, j)
        /\ j <= i
        /\ i + Len(d) <= j + ShapeLen(shape)
        /\ Len(d) < ShapeLen(shape)

\* d occurs in s as a date of its own
C21_Complete(d, s) ==
    \E i \in 1..Len(s) : IsAt(d, s, i) /\ ~C21_InsideLonger(d, s, i)

C21_YearFirst == <<"2", "0", "1", "9", "/", "0", "1", "/", "1", "5">>

C21_DayFirst == <<"1", "5", "/", "0", "1", "/", "2", "0", "1", "9">>

\* C21: every string extract_dates returns is a whole date of the text and
\* not a part of a longer one; for a text that is one year-first date or one
\* DD/MM/YYYY date the result is that one string and it is the record's date.
C21_WholeDates ==
    /\ pc = "extract_dates" =>
          /\ \A k \in 1..Len(out.val) : C21_Complete(out.val[k], text[1])
          /\ text[1] \in {C21_YearFirst, C21_DayFirst} => out.val = << text[1] >>
    /\ (pc = "structure_output" /\ text[1] \in {C21_YearFirst, C21_DayFirst}) =>
          out.val.date = Some(text[1])

\* the same statement without the year-first shape
C21_WholeDayFirst ==
    (pc = "extract_dates" /\ \A j \in 1..Len(text[1]) : ~ShapeAt(3, text[1], j)) =>
        \A k \in 1..Len(out.val) : C21_Complete(out.val[k], text[1])

\* the year-first date yields its last eight characters first
C21_Fragment ==
    /\ pc = "structure_output"
    /\ text = Some(C21_YearFirst)
    /\ out.val.date = Some(<<"1", "9", "/", "0", "1", "/", "1", "5">>)

---------------------------------------------------------------------------
(* Properties of extract_line_items: the quantity.                         *)

\* the digits at the start of a line, after its leading whitespace
C22_LeadingDigits(line) ==
    With({i \in 1..Len(line) : line[i] \notin Whitespace}, LAMBDA solid :
         IF solid = {} THEN << >>
         ELSE With({i \in MinOf(solid)..Len(line) : line[i] \notin Digits}, LAMBDA stops :
              Slice(line, MinOf(solid), IF stops = {} THEN Len(line) + 1 ELSE MinOf(stops))))

C22_QuantityOf(line) ==
    IF C22_LeadingDigits(line) = << >> THEN 1 ELSE NatOfDigits(C22_LeadingDigits(line))

\* C22: the quantity of an item is the value of the digit run at the start
\* of the line that emitted it, or 1 when that line does not start with a
\* digit; the lines above it have no part in it.
C22_Quantity ==
    pc = "extract_line_items" =>
        /\ Len(out.val) = Cardinality(C18_Emitting(item_lines))
        /\ \A n \in 1..Len(out.val) :
              out.val[n].quantity =
                  C22_QuantityOf(item_lines[Nth(C18_Emitting(item_lines), n)])

C22_Example == <<"I", "t", "e", "m", "\n", "W", "i", "d", "g", "e", "t", " ", "A", "\n", "2", " ", "x", " ", "5", ".", "0", "0", " ", "1", "0", ".", "0", "0">>

C22_ExampleEarlier == <<"I", "t", "e", "m", "\n", "1", "2", ".", "5", "0", "\n", "G", "a", "d", "g", "e", "t", " ", "2", "5", ".", "5", "0">>

\* the quantity 2 of the price line, the description begun a line above
C22_Witness ==
    /\ pc = "extract_line_items"
    /\ text = Some(C22_Example)
    /\ Len(out.val) = 1
    /\ out.val[1].quantity = 2

\* the digits of the line above are not the quantity
C22_WitnessEarlier ==
    /\ pc = "extract_line_items"
    /\ text = Some(C22_ExampleEarlier)
    /\ Len(out.val) = 1
    /\ out.val[1].quantity = 1

---------------------------------------------------------------------------
(* Properties of extract_bill_to.                                          *)

C23_Headings == {<<"b", "i", "l", "l", " ", "t", "o">>, <<"b", "i", "l", "l", "e", "d", " ", "t", "o">>, <<"b", "i", "l", "l", "i", "n", "g", " ", "n", "a", "m", "e">>, <<"c", "u", "s", "t", "o", "m", "e", "r">>}

\* the lines of the text, trimmed, the empty ones left out
C23_Lines(s) ==
    SelectSeq([i \in 1..Len(SplitLines(s)) |-> Strip(SplitLines(s)[i])],
              LAMBDA l : l # << >>)

C23_HeadingLines(ls) ==
    {i \in 1..Len(ls) : \E h \in C23_Headings : ContainsAnyCase(ls[i], h)}

\* the candidate text: after the first ':' or '-' of the first heading
\* line, or the next line when that line has neither
C23_Candidate(ls) ==
    IF C23_HeadingLines(ls) = {} THEN None
    ELSE With(MinOf(C23_HeadingLines(ls)), LAMBDA h :
         With({j \in 1..Len(ls[h]) : ls[h][j] \in {":", "-"}}, LAMBDA seps :
              IF seps # {} THEN Some(Strip(Slice(ls[h], MinOf(seps) + 1, Len(ls[h]) + 1)))
              ELSE IF h < Len(ls) THEN Some(ls[h + 1])
              ELSE None))

\* C23: the result is made of the candidate of the first heading line: the
\* text after its first ':' or '-' when it has one (the next line is then
\* not read, so a bare 'Bill To:' gives absent), otherwise the whole next
\* non-empty line, absent when there is none; later headings are not read.
C23_Candidates ==
    pc = "extract_bill_to" => out.val = BillToOf(C23_Candidate(C23_Lines(text[1])))

C23_Example == <<"B", "i", "l", "l", " ", "T", "o", ":", "\n", "1", "5", "/", "0", "1", "/", "2", "0", "1", "9", " ", "B", "o", "b", " ", "L", "e", "e">>

C23_ExampleNext == <<"C", "u", "s", "t", "o", "m", "e", "r", "\n", "1", "5", "/", "0", "1", "/", "2", "0", "1", "9", " ", "B", "o", "b", " ", "L", "e", "e">>

C23_ExampleLater == <<"C", "u", "s", "t", "o", "m", "e", "r", "\n", "A", "l", "\n", "B", "i", "l", "l", " ", "T", "o", ":", " ", "B", "o", "b", " ", "b", "o", "b", "@", "x", ".", "i", "o">>

\* a heading with a separator and nothing after it: the name below is lost
C23_Witness ==
    /\ pc = "extract_bill_to"
    /\ text = Some(C23_Example)
    /\ out.val = None

\* a heading without a separator takes the next line
C23_WitnessNext ==
    /\ pc = "extract_bill_to"
    /\ text = Some(C23_ExampleNext)
    /\ out.val = Some([name |-> <<"1", "5", "/", "0", "1", "/", "2", "0", "1", "9", " ", "B", "o", "b", " ", "L", "e", "e">>, email |-> None])

\* the second heading is not read after the first gave too short a name
C23_WitnessLater ==
    /\ pc = "extract_bill_to"
    /\ text = Some(C23_ExampleLater)
    /\ out.val = None

C24_Word == Letters \cup Digits \cup {"_"}

C24_Local == C24_Word \cup {".", "-"}

\* the points after the '@' at position a that can end the domain: the
\* characters between are address characters, at least one, and a word
\* character follows
C24_Dots(c, a) ==
    {d \in (a + 2)..(Len(c) - 1) :
        /\ c[d] = "."
        /\ c[d + 1] \in C24_Word
        /\ \A m \in (a + 1)..(d - 1) : c[m] \in C24_Local}

\* the '@' reached from position s through address characters alone
C24_AtSign(c, s) ==
    With({a \in (s + 1)..Len(c) : c[a] = "@"}, LAMBDA ats :
         IF c[s] \in C24_Local /\ ats # {}
            /\ \A m \in s..(MinOf(ats) - 1) : c[m] \in C24_Local
         THEN MinOf(ats) ELSE 0)

\* the positions where a local@domain.tld address starts
C24_Starts(c) ==
    {s \in 1..Len(c) : C24_AtSign(c, s) # 0 /\ C24_Dots(c, C24_AtSign(c, s)) # {}}

\* the first address of c, taken as long as it can be
C24_Email(c) ==
    With(MinOf(C24_Starts(c)), LAMBDA s :
    With(MaxOf(C24_Dots(c, C24_AtSign(c, s))), LAMBDA d :
    With({e \in (d + 1)..Len(c) : c[e] \notin C24_Word}, LAMBDA stops :
         Slice(c, s, IF stops = {} THEN Len(c) + 1 ELSE MinOf(stops)))))

\* the candidate without its first address, trimmed
C24_Name(c) ==
    IF C24_Starts(c) = {} THEN c ELSE Strip(RemoveAll(c, C24_Email(c), 1))

\* C24: for a non-empty candidate, a record is returned exactly when the
\* candidate without its first email address, trimmed, has more than two
\* characters; the name is that remainder and does not contain the email,
\* and the email is absent exactly when the candidate has no
\* local@domain.tld address.
C24_NameAndEmail ==
    (pc = "extract_bill_to" /\ ~Falsy(C23_Candidate(C23_Lines(text[1])))) =>
        With(C23_Candidate(C23_Lines(text[1]))[1], LAMBDA c :
            /\ (out.val # None) <=> (Len(C24_Name(c)) > 2)
            /\ out.val # None =>
                  /\ out.val[1].name = C24_Name(c)
                  /\ (out.val[1].email = None) <=> (C24_Starts(c) = {})
                  /\ out.val[1].email # None =>
                        /\ out.val[1].email = Some(C24_Email(c))
                        /\ ~Contains(out.val[1].name, out.val[1].email[1]))

\* a name with an address: the address is taken out of the name
C24_Witness ==
    /\ pc = "extract_bill_to"
    /\ text = Some(<<"B", "i", "l", "l", " ", "T", "o", ":", " ", "B", "o", "b", " ", "a", "@", "b", ".", "c", "o">>)
    /\ out.val = Some([name |-> <<"B", "o", "b">>, email |-> Some(<<"a", "@", "b", ".", "c", "o">>)])

\* an address and a two-letter name: absent
C24_WitnessShort ==
    /\ pc = "extract_bill_to"
    /\ text = Some(<<"B", "i", "l", "l", " ", "T", "o", ":", " ", "a", "@", "b", ".", "c", "o", " ", "A", "l">>)
    /\ out.val = None

\* no address: the email is absent
C24_WitnessNoEmail ==
    /\ pc = "extract_bill_to"
    /\ text = Some(<<"B", "i", "l", "l", " ", "T", "o", ":", " ", "B", "o", "b", " ", "A", "l">>)
    /\ out.val = Some([name |-> <<"B", "o", "b", " ", "A", "l">>, email |-> None])

---------------------------------------------------------------------------
(* Properties of process_batch.                                            *)

C25_Path(e) == call.image_folder \o <<"/">> \o e.name

\* the entries of the folder whose names end in .jpg, .png or .jpeg
C25_Images ==
    {world.listing[i] : i \in {j \in 1..Len(world.listing) :
        \E ext \in {<<".", "j", "p", "g">>, <<".", "p", "n", "g">>, <<".", "j", "p", "e", "g">>} :
            /\ Len(world.listing[j].name) >= Len(ext)
            /\ \A m \in 1..Len(ext) :
                  world.listing[j].name[Len(world.listing[j].name) - Len(ext) + m] = ext[m]}}

C25_Entry(p) == CHOOSE e \in C25_Images : C25_Path(e) = p

\* the file is decoded, the model is loaded and the record can be written
C25_Succeeds(p) == C25_Entry(p).readable /\ world.loaded /\ world.writable

C25_Record(p) == extract_ml_based(FileWorld(world, C25_Entry(p))).val

\* C25: process_batch takes every file of the folder that matches *.jpg,
\* *.png or *.jpeg exactly once, goes on after a file that fails, and
\* returns the records of the files that succeeded, in the order they were
\* taken, with nothing for a failed file.
C25_Batch ==
    pc = "process_batch" =>
        /\ out.status = "returned"
        /\ Len(printed.processing) = Cardinality(C25_Images)
        /\ {printed.processing[k] : k \in 1..Len(printed.processing)}
               = {C25_Path(e) : e \in C25_Images}
        /\ With(SelectSeq(printed.processing, C25_Succeeds), LAMBDA good :
               out.val = [k \in 1..Len(good) |-> C25_Record(good[k])])
        /\ printed.errors = SelectSeq(printed.processing, LAMBDA p : ~C25_Succeeds(p))

\* a file that fails, then two that succeed
C25_Witness ==
    /\ pc = "process_batch"
    /\ Len(printed.processing) = 3
    /\ printed.errors = << printed.processing[1] >>
    /\ Len(out.val) = 2
    /\ out.val[1] # out.val[2]
    /\ Cardinality(files) = 2

\* a folder entry that is no image is never taken
C25_WitnessSkipped ==
    /\ pc = "process_batch"
    /\ Len(world.listing) = 3
    /\ Len(printed.processing) = 2
    /\ Len(out.val) = 2

---------------------------------------------------------------------------
(* Properties of preprocess_pipeline.                                      *)

C26_Ran == pc = "preprocess_pipeline" /\ world # None

\* the image that reaches the k-th step is 2-D: the input is, or a
\* 'grayscale' step came before
C26_TwoD(k) ==
    world[1].ndim = 2 \/ \E j \in 1..(k - 1) : call.steps[j] = "grayscale"

C26_KernelValid == call.denoise_kernel > 0 /\ call.denoise_kernel % 2 = 1

C26_MethodValid == call.binarize_method \in {"simple", "adaptive"}

C26_BlockValid ==
    call.binarize_method = "adaptive" =>
        call.binarize_block_size > 1 /\ call.binarize_block_size % 2 = 1

\* the error the k-th step ends with, "" when it has none
C26_ErrorAt(k) ==
    CASE call.steps[k] = "grayscale" -> ""
      [] call.steps[k] = "denoise" ->
            IF call.denoise_kernel <= 0 THEN "ValueError: Kernel size must be positive"
            ELSE IF ~C26_KernelValid THEN "ValueError: Kernel size must be odd"
            ELSE ""
      [] call.steps[k] = "binarize" ->
            IF ~C26_TwoD(k)
            THEN "ValueError: Input image must be grayscale for binarization"
            ELSE IF ~C26_MethodValid THEN "ValueError: Unknown binarization method"
            ELSE IF ~C26_BlockValid THEN "cv2.error"
            ELSE ""
      [] OTHER -> "ValueError: Unknown preprocessing step"

C26_Offending == {k \in 1..Len(call.steps) : C26_ErrorAt(k) # ""}

C26_ValueErrors ==
    {"ValueError: Kernel size must be positive",
     "ValueError: Kernel size must be odd",
     "ValueError: Input image must be grayscale for binarization",
     "ValueError: Unknown binarization method",
     "ValueError: Unknown preprocessing step"}

\* the operation the k-th step applies to the image it receives, if any
C26_OpOf(k) ==
    CASE call.steps[k] = "grayscale" ->
            IF C26_TwoD(k) THEN << >> ELSE << [op |-> "cvtColor", args |-> << >>] >>
      [] call.steps[k] = "denoise" ->
            << [op |-> "GaussianBlur",
                args |-> <<call.denoise_kernel, call.denoise_kernel, 0>>] >>
      [] call.steps[k] = "binarize" /\ call.binarize_method = "simple" ->
            << [op |-> "threshold", args |-> <<127, 255>>] >>
      [] OTHER ->
            << [op |-> "adaptiveThreshold",
                args |-> <<255, call.binarize_block_size, call.binarize_C>>] >>

RECURSIVE C26_OpsUpTo(_)
C26_OpsUpTo(k) == IF k = 0 THEN << >> ELSE C26_OpsUpTo(k - 1) \o C26_OpOf(k)

\* C26: preprocess_pipeline applies the steps in list order, each to the
\* output of the one before, and returns normally exactly when every step
\* name is 'grayscale', 'denoise' or 'binarize', every 'binarize' step is
\* reached with a 2-D image and the parameters are valid; otherwise it
\* raises ValueError at the first offending step and returns no image.
C26_ValueErrorOtherwise ==
    C26_Ran =>
        IF C26_Offending = {}
        THEN /\ out.status = "returned"
             /\ out.val[1].ops = C26_OpsUpTo(Len(call.steps))
        ELSE /\ out.status = "raised"
             /\ out.exc \in C26_ValueErrors
             /\ out.exc = C26_ErrorAt(MinOf(C26_Offending))
             /\ out.val = << >>

\* the same with the error of the first offending step as the code raises
\* it: ValueError, or cv2.error for an adaptive block size that is even or
\* below 3, which binarize hands to OpenCV unchecked
C26_FirstOffendingStep ==
    C26_Ran =>
        IF C26_Offending = {}
        THEN /\ out.status = "returned"
             /\ out.val[1].ndim = (IF C26_TwoD(Len(call.steps) + 1) THEN 2 ELSE 3)
             /\ out.val[1].ops = C26_OpsUpTo(Len(call.steps))
        ELSE /\ out.status = "raised"
             /\ out.exc = C26_ErrorAt(MinOf(C26_Offending))
             /\ out.val = << >>

C26_Defaults ==
    /\ call.denoise_kernel = 3
    /\ call.binarize_method = "adaptive"
    /\ call.binarize_block_size = 11

\* both step lists of the test succeed on an RGB image, and 'grayscale'
\* leaves a grayscale image as it is
C26_Examples ==
    C26_Ran =>
        /\ ( /\ world = Some(RGB) /\ C26_Defaults
             /\ call.steps \in {<<"grayscale", "denoise", "binarize">>,
                                <<"grayscale", "binarize">>} )
               => out.status = "returned" /\ out.val[1].ndim = 2
        /\ call.steps = <<"grayscale">> /\ world = Some(Gray)
               => out = Ret(world)

\* an even block size reaches OpenCV and the error is not a ValueError
C26_EvenBlockSize ==
    /\ pc = "preprocess_pipeline"
    /\ world = Some(RGB)
    /\ call.steps = <<"grayscale", "binarize">>
    /\ call.binarize_method = "adaptive"
    /\ call.binarize_block_size = 4
    /\ out = Raise("cv2.error")

\* the second of two offending steps is never reached
C26_FirstOfTwo ==
    /\ pc = "preprocess_pipeline"
    /\ world = Some(RGB)
    /\ call.steps = <<"denoise", "binarize", "deskew">>
    /\ call.denoise_kernel = 3
    /\ out = Raise("ValueError: Input image must be grayscale for binarization")

C26_FullPipeline ==
    /\ pc = "preprocess_pipeline"
    /\ world = Some(RGB)
    /\ C26_Defaults
    /\ call.steps = <<"grayscale", "denoise", "binarize">>
    /\ out.status = "returned"
    /\ Len(out.val[1].ops) = 3

=============================================================================
